---- MODULE Spec2Model ----
(***************************************************************************)
(* Retrieval-and-ranking pipeline of the Young-Pharoahs RAG backend:       *)
(* query rewriting, query enrichment with image hints, coarse vector       *)
(* search, cross-encoder reranking, context assembly and grounded answer   *)
(* generation, as coded in app/services, app/utils and app/routers.        *)
(*                                                                         *)
(* Text is modelled as a sequence of atoms.  An atom is either a single    *)
(* character that the code inspects (a blank, a line break, a quote) or an *)
(* opaque run of characters that the code never looks into.  Concatenation *)
(* is \o, and str.strip / str.startswith / the `in` operator are computed  *)
(* on the atoms.                                                           *)
(***************************************************************************)
EXTENDS Integers, Sequences, FiniteSets, TLC

\* ------------------------------------------------------------------ bounds
MaxHist == 7       \* longest conversation history handed to rewrite_query
MaxLLMLen == 3     \* longest raw LLM response, in atoms
MaxHints == 3      \* most image descriptions in one request / batch
MaxDocs == 3       \* most documents the vector index returns
MaxScore == 2      \* cross-encoder scores are drawn from 0..MaxScore
MaxTurns == 1      \* /query requests served in one behaviour
MaxQueryDocs == 2  \* most matches the index holds for a /query search
MaxTasks == 2      \* coroutines calling the ConversationService at once
MaxOps == 3        \* ConversationService calls started in one behaviour

\* ------------------------------------------------------------------- text
SP == " "
NL == "\n"
DQ == "\""
SQ == "'"
Whitespace == {SP, NL}

Min(a, b) == IF a < b THEN a ELSE b

\* str.lstrip(chars): drop leading atoms that are in chars
RECURSIVE LStripSet(_, _)
LStripSet(s, chars) ==
    IF s # <<>> /\ Head(s) \in chars THEN LStripSet(Tail(s), chars) ELSE s

\* str.rstrip(chars)
RECURSIVE RStripSet(_, _)
RStripSet(s, chars) ==
    IF s # <<>> /\ s[Len(s)] \in chars
    THEN RStripSet(SubSeq(s, 1, Len(s) - 1), chars)
    ELSE s

\* str.strip() with no argument strips whitespace
Strip(s) == RStripSet(LStripSet(s, Whitespace), Whitespace)

\* str.strip(c) strips every leading and trailing occurrence of c
StripChar(s, c) == RStripSet(LStripSet(s, {c}), {c})

\* str.startswith(prefix)
StartsWith(s, prefix) ==
    Len(s) >= Len(prefix) /\ SubSeq(s, 1, Len(prefix)) = prefix

\* `sub in s`
Contains(s, sub) ==
    \E i \in 1..(Len(s) - Len(sub) + 1) : SubSeq(s, i, i + Len(sub) - 1) = sub

\* sep.join(parts)
RECURSIVE Join(_, _)
Join(sep, parts) ==
    IF parts = <<>> THEN <<>>
    ELSE IF Len(parts) = 1 THEN parts[1]
    ELSE parts[1] \o sep \o Join(sep, Tail(parts))

\* s[-n:]
LastN(s, n) == IF Len(s) <= n THEN s ELSE SubSeq(s, Len(s) - n + 1, Len(s))

\* s[:n] for n >= 0
FirstN(s, n) == SubSeq(s, 1, Min(n, Len(s)))

\* all sequences over S of length 0..n
SeqUpTo(S, n) == UNION {[1..k -> S] : k \in 0..n}

\* Settings defaults of app/config.py
top_k == 30
max_top_k == 100
min_top_k == 1

VARIABLES
    call,      \* the call under test: function name and arguments
    ret,       \* its outcome: pending, returned (with a value) or raised
    llm_log,   \* prompts handed to the Gemini text model, in call order
    index_log, \* calls made to the Pinecone vector index: query text and k
    predict_log, \* batches of (query, text) pairs scored by the cross-encoder
    generate_log, \* arguments of each generate_with_context call
    rerank_log, \* arguments of each RerankerService.rerank call
    store,     \* the conversations collection: conversation_id -> document
    clock,     \* what datetime.now(timezone.utc) returns next
    next_id,   \* number of conversation ids handed out so far, plus one
    settings_top_k, \* settings.top_k as loaded from the environment
    req,       \* the /query request being served: its locals and position
    response,  \* the HTTP response of the request, once it has one
    turns      \* /query requests completed

hvars == <<call, ret>>
logs == <<llm_log, index_log, predict_log, generate_log, rerank_log>>
pvars == <<generate_log, rerank_log, store, clock, next_id, settings_top_k, req, response, turns>>
vars == <<call, ret, llm_log, index_log, predict_log, pvars>>


NoCalls ==
    /\ llm_log = <<>> /\ index_log = <<>> /\ predict_log = <<>>
    /\ generate_log = <<>> /\ rerank_log = <<>>

NoResponse == [status |-> 0]

IdleRequest == [pc |-> "idle"]

\* no /query request is being served and the conversations collection is empty
NoServer ==
    /\ store = <<>>
    /\ clock = 1
    /\ next_id = 1
    /\ settings_top_k = top_k
    /\ req = IdleRequest
    /\ response = NoResponse
    /\ turns = 0

Pending == [status |-> "pending"]

\* --------------------------------------------------- Gemini text model
LLMAtoms == {SP, DQ, SQ, "w"}

\* model.generate_content(prompt): the call fails, or response.text is any text
LLMOutcomes ==
    {[fail |-> TRUE, text |-> <<>>]}
        \cup {[fail |-> FALSE, text |-> t] : t \in SeqUpTo(LLMAtoms, MaxLLMLen)}

\* LLMService.generate: response.text.strip(), RuntimeError on any failure
generate(prompt, llm) ==
    IF llm.fail
    THEN [raised |-> TRUE, text |-> <<>>]
    ELSE [raised |-> FALSE, text |-> Strip(llm.text)]

\* --------------------------------------------------------- QueryRewriter
\* f"{role}: {msg['content']}" for one history message
RewriteHistoryLine(msg) ==
    <<IF msg.role = "user" THEN "User" ELSE "Assistant", ":", SP>> \o msg.content

\* a rewriter that shows the LLM the six oldest messages
RewriteHistoryStr_Oldest(history) ==
    LET recent == FirstN(history, 6)
    IN  Join(<<NL>>, [i \in 1..Len(recent) |-> RewriteHistoryLine(recent[i])])

\* the lines of history[-6:], joined by "\n"
RewriteHistoryStr(history) ==
    LET recent == LastN(history, 6)
    IN  Join(<<NL>>, [i \in 1..Len(recent) |-> RewriteHistoryLine(recent[i])])

RewritePrompt(query, history) ==
    <<"<rewrite rules>", NL, NL, "### Conversation History:", NL>>
        \o RewriteHistoryStr(history)
        \o <<NL, NL, "### New User Question:", NL>>
        \o query
        \o <<NL, NL, "### Rewritten Query:">>

\* rewritten.strip().strip('"').strip("'").strip()
CleanRewritten(text) == Strip(StripChar(StripChar(Strip(text), DQ), SQ))

\* a rewriter whose empty-history shortcut is missing
rewrite_query_NoPassthrough(query, history, llm) ==
    LET prompt == RewritePrompt(query, history)
        g == generate(prompt, llm)
        rewritten == CleanRewritten(g.text)
    IN  [raised |-> FALSE,
         value |-> IF ~g.raised /\ rewritten # <<>> THEN rewritten ELSE query,
         prompts |-> <<prompt>>]

\* a rewriter that lets the LLM failure escape and returns an empty rewrite
rewrite_query_NoFallback(query, history, llm) ==
    IF history = <<>>
    THEN [raised |-> FALSE, value |-> query, prompts |-> <<>>]
    ELSE LET prompt == RewritePrompt(query, history)
             g == generate(prompt, llm)
         IN  IF g.raised
             THEN [raised |-> TRUE, value |-> <<>>, prompts |-> <<prompt>>]
             ELSE [raised |-> FALSE, value |-> CleanRewritten(g.text),
                   prompts |-> <<prompt>>]

\* LLMService.rewrite_query(query, history): the value returned, whether an
\* exception escaped, and the prompts sent to the model.  An absent history
\* (None) and an empty list take the same branch and are both <<>> here.
rewrite_query(query, history, llm) ==
    IF history = <<>>
    THEN [raised |-> FALSE, value |-> query, prompts |-> <<>>]
    ELSE LET prompt == RewritePrompt(query, history)
             g == generate(prompt, llm)
             rewritten == CleanRewritten(g.text)
         IN  IF g.raised
             THEN [raised |-> FALSE, value |-> query, prompts |-> <<prompt>>]
             ELSE IF rewritten # <<>>
             THEN [raised |-> FALSE, value |-> rewritten, prompts |-> <<prompt>>]
             ELSE [raised |-> FALSE, value |-> query, prompts |-> <<prompt>>]

\* ----------------------------------------- rewrite_query called directly
\* a history of n messages, user and assistant alternating, each distinct
HistoryOf(n) ==
    [i \in 1..n |->
        [role |-> IF i % 2 = 1 THEN "user" ELSE "assistant",
         content |-> <<"m", ToString(i)>>]]

RewriteQueries ==
    {<<"who">>, <<"how", SP, SP, "long", SP, "did", SP, "he", SP, "rule">>,
     <<SP, DQ, "who", DQ, NL>>, <<>>}

InitRewrite ==
    /\ call \in [fn : {"rewrite_query"}, query : RewriteQueries,
                 history : {HistoryOf(n) : n \in 0..MaxHist}, llm : LLMOutcomes]
    /\ ret = Pending
    /\ NoCalls
    /\ NoServer

CallRewrite ==
    /\ call.fn = "rewrite_query"
    /\ ret = Pending
    /\ LET r == rewrite_query(call.query, call.history, call.llm)
       IN  /\ ret' = [status |-> IF r.raised THEN "raised" ELSE "returned",
                      value |-> r.value]
           /\ llm_log' = llm_log \o [i \in 1..Len(r.prompts) |->
                                         [prompt |-> r.prompts[i], reply |-> call.llm]]
    /\ UNCHANGED <<pvars, call, index_log, predict_log>>

NextRewrite == CallRewrite

SpecRewrite == InitRewrite /\ [][NextRewrite]_vars

\* C1: with an empty history rewrite_query returns exactly the query it was
\* given and sends nothing to the LLM.
C1_EmptyHistoryPassthrough ==
    (call.fn = "rewrite_query" /\ call.history = <<>> /\ ret # Pending)
        => (ret.status = "returned" /\ ret.value = call.query /\ llm_log = <<>>)

\* C1 witness: a query with inner and outer blanks and quotes came back
\* untouched from an empty history.
C1_Witness ==
    /\ call.fn = "rewrite_query"
    /\ call.history = <<>>
    /\ call.query = <<SP, DQ, "who", DQ, NL>>
    /\ ret.status = "returned"

\* ------------------------------------------------------- ImageDescriber
\* one image's model.generate_content call: it fails with some error text,
\* or response.text is some text
DescTexts ==
    {<<"Ramses", SP, "II">>, <<SP, "Nefertiti", NL>>, <<>>,
     <<"[Image", SP, "of", SP, "a", SP, "king", "]">>,
     <<"temple", SP, "processing", SP, "failed">>}
ErrTexts == {<<"timeout">>, <<"quota", SP, "[Image", "]">>}

ImageOutcomes ==
    {[fail |-> FALSE, text |-> t] : t \in DescTexts}
        \cup {[fail |-> TRUE, text |-> e] : e \in ErrTexts}

\* VisionService.describe_image_async: response.text.strip(), or
\* RuntimeError(f"Image description failed: {e}")
describe_image_async(img) ==
    IF img.fail
    THEN [raised |-> TRUE,
          text |-> <<"Image", SP, "description", SP, "failed", ":", SP>> \o img.text]
    ELSE [raised |-> FALSE, text |-> Strip(img.text)]

\* a marker without the bracket, as the logger prints the failure
FailureMarker_Unbracketed(i, desc) ==
    <<"Image", SP, ToString(i), SP, "processing", SP, "failed", ":", SP>> \o desc

\* f"[Image {i+1} processing failed: {desc}]", i counted from 1 here
FailureMarker(i, desc) ==
    <<"[Image", SP, ToString(i), SP, "processing", SP, "failed", ":", SP>>
        \o desc \o <<"]">>

\* VisionService.describe_images_batch: asyncio.gather(return_exceptions=True)
\* keeps the order of the images; an exception in slot i becomes the marker
describe_images_batch(images) ==
    [i \in 1..Len(images) |->
        LET d == describe_image_async(images[i])
        IN  IF d.raised THEN FailureMarker(i, d.text) ELSE d.text]

\* ----------------------------------------------------- query enrichment
\* the condition of the list comprehension in enrich_query_with_images
KeepDescription(desc) ==
    ~StartsWith(desc, <<"[Image">>)
        \/ ~Contains(desc, <<"processing", SP, "failed">>)

RECURSIVE ValidDescriptions(_)
ValidDescriptions(descs) ==
    IF descs = <<>> THEN <<>>
    ELSE (IF KeepDescription(Head(descs)) THEN <<Head(descs)>> ELSE <<>>)
             \o ValidDescriptions(Tail(descs))

\* an enrichment that collects the kept hints in reverse
RECURSIVE ValidDescriptions_Reversed(_)
ValidDescriptions_Reversed(descs) ==
    IF descs = <<>> THEN <<>>
    ELSE ValidDescriptions_Reversed(Tail(descs))
             \o (IF KeepDescription(Head(descs)) THEN <<Head(descs)>> ELSE <<>>)

enrich_query_with_images_Reversed(query, image_descriptions) ==
    LET valid_descriptions == ValidDescriptions_Reversed(image_descriptions)
    IN  IF valid_descriptions = <<>> THEN query
        ELSE query \o <<".", SP, "Context:", SP>>
                 \o Join(<<",", SP>>, valid_descriptions)

\* prompt.enrich_query_with_images
enrich_query_with_images(query, image_descriptions) ==
    IF image_descriptions = <<>> THEN query
    ELSE LET valid_descriptions == ValidDescriptions(image_descriptions)
         IN  IF valid_descriptions = <<>> THEN query
             ELSE query \o <<".", SP, "Context:", SP>>
                      \o Join(<<",", SP>>, valid_descriptions)

\* ------------------ describe_images_batch and enrichment called directly
EnrichQueries == {<<"Tell", SP, "me", SP, "about", SP, "Ramses", SP, "II">>, <<"who">>}

\* hints a caller may hand to enrichment: descriptions and failure markers
HintTexts ==
    {Strip(t) : t \in DescTexts}
        \cup {FailureMarker(i, <<"Image", SP, "description", SP, "failed", ":", SP>> \o e) :
                 i \in 1..2, e \in ErrTexts}

InitEnrich ==
    /\ \/ call \in [fn : {"enrich_query_with_images"}, query : EnrichQueries,
                    image_descriptions : SeqUpTo(HintTexts, MaxHints)]
       \/ call \in [fn : {"describe_images_batch"}, query : EnrichQueries,
                    images : SeqUpTo(ImageOutcomes, MaxHints)]
    /\ ret = Pending
    /\ NoCalls
    /\ NoServer

CallEnrich ==
    /\ call.fn = "enrich_query_with_images"
    /\ ret = Pending
    /\ ret' = [status |-> "returned",
               value |-> enrich_query_with_images(call.query, call.image_descriptions)]
    /\ UNCHANGED <<pvars, call, llm_log, index_log, predict_log>>

CallDescribeBatch ==
    /\ call.fn = "describe_images_batch"
    /\ ret = Pending
    /\ ret' = [status |-> "described",
               descriptions |-> describe_images_batch(call.images)]
    /\ UNCHANGED <<pvars, call, llm_log, index_log, predict_log>>

\* the descriptions of a batch handed on to enrichment, as /query does with
\* what /describe-images returned
EnrichDescribed ==
    /\ call.fn = "describe_images_batch"
    /\ ret.status = "described"
    /\ ret' = [status |-> "returned", descriptions |-> ret.descriptions,
               value |-> enrich_query_with_images(call.query, ret.descriptions)]
    /\ UNCHANGED <<pvars, call, llm_log, index_log, predict_log>>

NextEnrich == CallEnrich \/ CallDescribeBatch \/ EnrichDescribed

SpecEnrich == InitEnrich /\ [][NextEnrich]_vars

\* a hint is a failure marker when it opens with "[Image" and reports
\* "processing failed"
IsFailureHint(h) ==
    /\ Len(h) >= 1
    /\ h[1] = "[Image"
    /\ \E i \in 1..Len(h) - 2 :
           h[i] = "processing" /\ h[i + 1] = SP /\ h[i + 2] = "failed"

\* the hint list the call under test hands to enrichment
HintsGiven ==
    IF call.fn = "enrich_query_with_images" THEN call.image_descriptions
    ELSE ret.descriptions

\* C3: the enriched query is the query, then ". Context: ", then the hints
\* that are not failure markers, in the order given and joined by ", "; with
\* no such hint it is the query itself.
C3_EnrichedQueryFormat ==
    (call.fn \in {"enrich_query_with_images", "describe_images_batch"}
         /\ ret.status = "returned")
        => LET good == SelectSeq(HintsGiven, LAMBDA h : ~IsFailureHint(h))
           IN  ret.value =
                   IF good = <<>> THEN call.query
                   ELSE call.query \o <<".", SP, "Context:", SP>>
                            \o Join(<<",", SP>>, good)

\* C3 witness: scenario A, and a list that mixes hints with a failure marker.
C3_Witness ==
    /\ call.fn = "enrich_query_with_images"
    /\ ret.status = "returned"
    /\ call.query = <<"Tell", SP, "me", SP, "about", SP, "Ramses", SP, "II">>
    /\ Len(call.image_descriptions) = 3
    /\ call.image_descriptions[1] = <<"Nefertiti">>
    /\ IsFailureHint(call.image_descriptions[2])
    /\ call.image_descriptions[3] = <<"Ramses", SP, "II">>
    /\ ret.value = <<"Tell", SP, "me", SP, "about", SP, "Ramses", SP, "II", ".", SP,
                     "Context:", SP, "Nefertiti", ",", SP, "Ramses", SP, "II">>

\* C4: whatever images of a batch fail, the marker describe_images_batch puts
\* in a failed slot is not part of the enriched search string.
C4_NoFailureMarkerInSearchQuery ==
    (call.fn = "describe_images_batch" /\ ret.status = "returned")
        => \A i \in 1..Len(call.images) :
               call.images[i].fail
                   => /\ IsFailureHint(ret.descriptions[i])
                      /\ ~Contains(ret.value, ret.descriptions[i])

\* C4 witness: scenario D, image 2 of 3 fails and hints 1 and 3 are used.
C4_Witness ==
    /\ call.fn = "describe_images_batch"
    /\ ret.status = "returned"
    /\ Len(call.images) = 3
    /\ ~call.images[1].fail /\ call.images[2].fail /\ ~call.images[3].fail
    /\ ret.value = call.query \o <<".", SP, "Context:", SP, "Ramses", SP, "II", ",", SP,
                                   "Nefertiti">>

\* ------------------------------------------------------------ documents
\* metadata.get(key, default)
MetadataGet(metadata, key, default) ==
    IF key \in DOMAIN metadata THEN metadata[key] ELSE default

NoContextSentinel == <<"No", SP, "relevant", SP, "context", SP, "found.">>

\* the i-th document of the indexed corpus; the second one has no metadata
\* and reads like the "no context" sentence, the third one lacks a page
DocContent(i) ==
    IF i = 1 THEN <<"Ramses", SP, "II", SP, "ruled", SP, "66", SP, "years">>
    ELSE IF i = 2 THEN NoContextSentinel \o <<NL>>
    ELSE <<"chunk", SP, ToString(i)>>

DocMetadata(i) ==
    IF i = 2 THEN [key \in {} |-> ""]
    ELSE IF i % 3 = 0 THEN [key \in {"source"} |-> "kings.pdf"]
    ELSE [key \in {"source", "page"} |->
             IF key = "source" THEN "ramses.pdf" ELSE ToString(i + 10)]

Doc(i) == [page_content |-> DocContent(i), metadata |-> DocMetadata(i)]

Corpus == {Doc(i) : i \in 1..MaxDocs}

\* sequences of 0..n elements of S, no element twice
InjectiveSeqs(S, n) ==
    {q \in SeqUpTo(S, n) : \A i, j \in 1..Len(q) : i # j => q[i] # q[j]}

\* what the index holds for a query: documents ranked by cosine similarity,
\* each paired with its coarse score
RankedMatches(n) ==
    {[i \in 1..Len(q) |-> [doc |-> q[i], score |-> Len(q) - i]] :
        q \in InjectiveSeqs(Corpus, n)}

\* ---------------------------------------------------------- VectorIndex
\* vectorstore.similarity_search_with_score(query, k): it fails, or returns
\* the k best matches
IndexOutcomes(n) ==
    {[fail |-> TRUE, matches |-> <<>>]}
        \cup {[fail |-> FALSE, matches |-> m] : m \in RankedMatches(n)}

\* a search whose bounds check sits inside the try block, so that its
\* ValueError is wrapped like a failure of the index
similarity_search_CheckInsideTry(query, k, default_k, index) ==
    LET k1 == IF k = 0 THEN default_k ELSE k
    IN  IF k1 < min_top_k \/ k1 > max_top_k
        THEN [raised |-> "RuntimeError", value |-> <<>>, calls |-> <<>>]
        ELSE IF index.fail
        THEN [raised |-> "RuntimeError", value |-> <<>>,
              calls |-> <<[query |-> query, k |-> k1]>>]
        ELSE [raised |-> "", value |-> FirstN(index.matches, k1),
              calls |-> <<[query |-> query, k |-> k1]>>]

\* VectorStoreService.similarity_search(query, k).  `k or settings.top_k`
\* takes settings.top_k when k is 0 (or None, not modelled apart from 0).
similarity_search(query, k, default_k, index) ==
    LET k1 == IF k = 0 THEN default_k ELSE k
    IN  IF k1 < min_top_k \/ k1 > max_top_k
        THEN [raised |-> "ValueError", value |-> <<>>, calls |-> <<>>]
        ELSE IF index.fail
        THEN [raised |-> "RuntimeError", value |-> <<>>,
              calls |-> <<[query |-> query, k |-> k1]>>]
        ELSE [raised |-> "", value |-> FirstN(index.matches, k1),
              calls |-> <<[query |-> query, k |-> k1]>>]

\* ------------------------------------------------------------- Reranker
\* list.sort(key=score, reverse=True) is stable: among equal scores the
\* earlier element stays first.  Insertion of x behind every element whose
\* score is at least x's.
RECURSIVE InsertByScoreDesc(_, _)
InsertByScoreDesc(sorted, x) ==
    IF sorted = <<>> THEN <<x>>
    ELSE IF Head(sorted).score >= x.score
    THEN <<Head(sorted)>> \o InsertByScoreDesc(Tail(sorted), x)
    ELSE <<x>> \o sorted

RECURSIVE SortFrom(_, _)
SortFrom(sorted, rest) ==
    IF rest = <<>> THEN sorted
    ELSE SortFrom(InsertByScoreDesc(sorted, Head(rest)), Tail(rest))

Reverse(s) == [i \in 1..Len(s) |-> s[Len(s) + 1 - i]]

\* an ascending sort
SortByScoreDesc_Ascending(results) == Reverse(SortFrom(<<>>, results))

\* a descending sort that leaves equal scores in reverse candidate order
SortByScoreDesc_Unstable(results) == SortFrom(<<>>, Reverse(results))

\* reranked_results.sort(key=lambda x: x[1], reverse=True)
SortByScoreDesc(results) == SortFrom(<<>>, results)

\* self.model.predict(pairs, batch_size): it fails, or gives one score per pair
PredictOutcomes(n) ==
    {[fail |-> TRUE, scores |-> <<>>]}
        \cup {[fail |-> FALSE, scores |-> sc] : sc \in [1..n -> 0..MaxScore]}

\* a reranker that falls back to the coarse order when scoring fails
rerank_FallbackToCoarse(query, documents, rerank_k, predict) ==
    IF documents = <<>>
    THEN [raised |-> "", value |-> <<>>, calls |-> <<>>]
    ELSE LET pairs == [i \in 1..Len(documents) |->
                          [query |-> query, text |-> documents[i].doc.page_content]]
         IN  IF predict.fail
             THEN [raised |-> "", value |-> FirstN(documents, rerank_k),
                   calls |-> <<pairs>>]
             ELSE LET reranked_results ==
                          [i \in 1..Len(predict.scores) |->
                              [doc |-> documents[i].doc, score |-> predict.scores[i]]]
                  IN  [raised |-> "",
                       value |-> FirstN(SortByScoreDesc(reranked_results), rerank_k),
                       calls |-> <<pairs>>]

\* RerankerService.rerank(query, documents, top_k) on a loaded model; every
\* caller passes a number as top_k
rerank(query, documents, rerank_k, predict) ==
    IF documents = <<>>
    THEN [raised |-> "", value |-> <<>>, calls |-> <<>>]
    ELSE LET pairs == [i \in 1..Len(documents) |->
                          [query |-> query, text |-> documents[i].doc.page_content]]
         IN  IF predict.fail
             THEN [raised |-> "RuntimeError", value |-> <<>>, calls |-> <<pairs>>]
             ELSE LET reranked_results ==
                          [i \in 1..Len(predict.scores) |->
                              [doc |-> documents[i].doc, score |-> predict.scores[i]]]
                  IN  [raised |-> "",
                       value |-> FirstN(SortByScoreDesc(reranked_results), rerank_k),
                       calls |-> <<pairs>>]

\* ------------------------------------- similarity_search called directly
InitSearch ==
    /\ call \in [fn : {"similarity_search"}, query : {<<"who">>},
                 k : {0, 1, 2, top_k, max_top_k, max_top_k + 1, 1000},
                 settings_top_k : {top_k, 2, 0},
                 index : IndexOutcomes(MaxDocs)]
    /\ ret = Pending
    /\ NoCalls
    /\ NoServer

CallSearch ==
    /\ call.fn = "similarity_search"
    /\ ret = Pending
    /\ LET r == similarity_search(call.query, call.k, call.settings_top_k, call.index)
       IN  /\ ret' = [status |-> IF r.raised = "" THEN "returned" ELSE "raised",
                      exc |-> r.raised, value |-> r.value]
           /\ index_log' = index_log \o r.calls
    /\ UNCHANGED <<pvars, call, llm_log, predict_log>>

NextSearch == CallSearch

SpecSearch == InitSearch /\ [][NextSearch]_vars

\* C5: a search whose top_k is outside [min_top_k, max_top_k] raises the
\* validation error (ValueError) and never reaches the vector index.
C5_OutOfBoundsTopKRejected ==
    (call.fn = "similarity_search" /\ ret # Pending
         /\ (call.k < min_top_k \/ call.k > max_top_k))
        => (ret.status = "raised" /\ ret.exc = "ValueError" /\ index_log = <<>>)

\* ------------------------------------------------ rerank called directly
InitRerank ==
    /\ \E d \in RankedMatches(MaxDocs), w \in 0..(MaxDocs + 1) :
           \E p \in PredictOutcomes(Len(d)) :
               call = [fn |-> "rerank", query |-> <<"who">>, documents |-> d,
                       rerank_k |-> w, predict |-> p]
    /\ ret = Pending
    /\ NoCalls
    /\ NoServer

CallRerank ==
    /\ call.fn = "rerank"
    /\ ret = Pending
    /\ LET r == rerank(call.query, call.documents, call.rerank_k, call.predict)
       IN  /\ ret' = [status |-> IF r.raised = "" THEN "returned" ELSE "raised",
                      exc |-> r.raised, value |-> r.value]
           /\ predict_log' = predict_log \o [i \in 1..Len(r.calls) |->
                                                 [pairs |-> r.calls[i],
                                                  fail |-> call.predict.fail]]
    /\ UNCHANGED <<pvars, call, llm_log, index_log>>

NextRerank == CallRerank

SpecRerank == InitRerank /\ [][NextRerank]_vars

\* position of document d in the candidate list
CandidateIndex(d) == CHOOSE j \in 1..Len(call.documents) : call.documents[j].doc = d

\* C6: rerank returns min(N, w) documents, each one a candidate (none twice)
\* carrying the score the cross-encoder gave it, best score first.
C6_RerankLengthAndOrder ==
    (call.fn = "rerank" /\ ret.status = "returned")
        => LET out == ret.value
               N == Len(call.documents)
           IN  /\ Len(out) = Min(N, call.rerank_k)
               /\ \A i \in 1..Len(out) :
                      \E j \in 1..N :
                          /\ out[i].doc = call.documents[j].doc
                          /\ out[i].score = call.predict.scores[j]
               /\ \A i, j \in 1..Len(out) : i # j => out[i].doc # out[j].doc
               /\ \A i \in 1..(Len(out) - 1) : out[i].score >= out[i + 1].score

\* C6 witness: three candidates cut to the two with the best new scores.
C6_Witness ==
    /\ call.fn = "rerank"
    /\ ret.status = "returned"
    /\ Len(call.documents) = 3
    /\ call.rerank_k = 2
    /\ call.predict.scores = <<0, 2, 1>>
    /\ ret.value = <<[doc |-> call.documents[2].doc, score |-> 2],
                     [doc |-> call.documents[3].doc, score |-> 1]>>

\* C7: two documents of the output with equal new scores stand in the order
\* they had in the candidate list.
C7_RerankStableOnTies ==
    (call.fn = "rerank" /\ ret.status = "returned")
        => \A i, j \in 1..Len(ret.value) :
               (i < j /\ ret.value[i].score = ret.value[j].score)
                   => CandidateIndex(ret.value[i].doc) < CandidateIndex(ret.value[j].doc)

\* C7 witness: the first and third candidate tie below the second one and
\* keep their order.
C7_Witness ==
    /\ call.fn = "rerank"
    /\ ret.status = "returned"
    /\ Len(call.documents) = 3
    /\ call.predict.scores = <<1, 2, 1>>
    /\ ret.value = <<[doc |-> call.documents[2].doc, score |-> 2],
                     [doc |-> call.documents[1].doc, score |-> 1],
                     [doc |-> call.documents[3].doc, score |-> 1]>>

\* ----------------------------------------------------- context assembly
\* f"{score:.3f}" of a whole-numbered score
FormatScore(score) == <<ToString(score), ".000">>

\* the f-string section of document i, before .strip()
ContextSection(i, scored) ==
    <<NL, "[Source", SP, ToString(i), "]", SP, "(Score:", SP>>
        \o FormatScore(scored.score)
        \o <<")", NL, "File:", SP, MetadataGet(scored.doc.metadata, "source", "Unknown"),
             ",", SP, "Page:", SP, MetadataGet(scored.doc.metadata, "page", "N/A"),
             NL, "Content:", SP>>
        \o scored.doc.page_content
        \o <<NL>>

\* an assembly that lists the documents by ascending score
build_context_from_documents_Resorted(documents) ==
    IF documents = <<>> THEN NoContextSentinel
    ELSE LET sorted == SortByScoreDesc_Ascending(documents)
         IN  Join(<<NL, NL>>,
                  [i \in 1..Len(sorted) |-> Strip(ContextSection(i, sorted[i]))])

\* an assembly whose empty case returns the empty string
build_context_from_documents_NoSentinel(documents) ==
    Join(<<NL, NL>>,
         [i \in 1..Len(documents) |-> Strip(ContextSection(i, documents[i]))])

\* prompt.build_context_from_documents
build_context_from_documents(documents) ==
    IF documents = <<>> THEN NoContextSentinel
    ELSE Join(<<NL, NL>>,
              [i \in 1..Len(documents) |-> Strip(ContextSection(i, documents[i]))])

\* ------------------------------------------------------ AnswerGenerator
RefusalSentence ==
    <<"The", SP, "chronicles", SP, "do", SP, "not", SP, "record", SP, "this", SP,
      "specific", SP, "detail.">>

\* what the model may answer to the grounded prompt
AnswerOutcomes ==
    {[fail |-> TRUE, text |-> <<>>],
     [fail |-> FALSE, text |-> RefusalSentence],
     [fail |-> FALSE, text |-> <<SP, "I", SP, "ruled", SP, "66", SP, "years", NL>>]}

GenerateHistoryStr(history) ==
    Join(<<NL>>,
         [i \in 1..Len(history) |->
             <<IF history[i].role = "user" THEN "User" ELSE "Pharaoh", ":", SP>>
                 \o history[i].content])

\* the prompt f-string of generate_with_context
GeneratePrompt(query, context, image_descriptions, history) ==
    LET image_context_str ==
            IF image_descriptions = <<>> THEN <<>>
            ELSE <<NL, NL, "### User Image Context:", NL>>
                     \o Join(<<NL>>, image_descriptions)
        history_str == IF history = <<>> THEN <<>> ELSE GenerateHistoryStr(history)
        history_block ==
            IF history_str = <<>> THEN <<>>
            ELSE <<NL, "### Conversation History:", NL>> \o history_str \o <<NL>>
    IN  <<"<persona and guardrail rules>", NL, NL,
          "### Image Description (Identity Hint):", NL>>
            \o image_context_str
            \o <<NL, NL, "### Retrieved Context (Your Chronicles):", NL>>
            \o context
            \o <<NL>> \o history_block
            \o <<NL, "### User Question:", NL>>
            \o query
            \o <<NL, NL, "### Answer:">>

\* LLMService.generate_with_context
generate_with_context(query, context, image_descriptions, history, llm) ==
    LET prompt == GeneratePrompt(query, context, image_descriptions, history)
        g == generate(prompt, llm)
    IN  [raised |-> IF g.raised THEN "RuntimeError" ELSE "",
         value |-> g.text, prompts |-> <<prompt>>]

\* ---------------------------------------------------- ConversationStore
\* a projection {"$slice": limit}, which keeps the oldest messages
get_history_Oldest(conversations, conversation_id, limit) ==
    IF conversation_id \in DOMAIN conversations
    THEN FirstN(conversations[conversation_id].messages, limit)
    ELSE <<>>

\* ConversationService.get_history: find_one with {"$slice": -limit}
get_history(conversations, conversation_id, limit) ==
    IF conversation_id \in DOMAIN conversations
    THEN LastN(conversations[conversation_id].messages, limit)
    ELSE <<>>

\* an update_one with upsert=True, which inserts a document for an id that
\* matches nothing
add_message_Upsert(conversations, conversation_id, role, content, now) ==
    LET message == [role |-> role, content |-> content, timestamp |-> now]
    IN  IF conversation_id \in DOMAIN conversations
        THEN [conversations EXCEPT
                  ![conversation_id].messages = Append(@, message),
                  ![conversation_id].updated_at = now]
        ELSE (conversation_id :> [updated_at |-> now, messages |-> <<message>>])
                 @@ conversations

\* ConversationService.add_message: update_one with $push and $set; an id
\* that matches nothing changes nothing (a warning is logged)
add_message(conversations, conversation_id, role, content, now) ==
    IF conversation_id \in DOMAIN conversations
    THEN [conversations EXCEPT
              ![conversation_id].messages =
                  Append(@, [role |-> role, content |-> content, timestamp |-> now]),
              ![conversation_id].updated_at = now]
    ELSE conversations

\* ConversationService.create_conversation: insert_one of an empty document
create_conversation(conversations, conversation_id, now) ==
    (conversation_id :> [created_at |-> now, updated_at |-> now, messages |-> <<>>])
        @@ conversations

\* ConversationService.delete_conversation: delete_one
delete_conversation(conversations, conversation_id) ==
    [id \in DOMAIN conversations \ {conversation_id} |-> conversations[id]]

\* -------------------------------------------------------- POST /query
rerank_top_k_query == 8     \* the width query_rag hands to rerank

\* QueryRequest: Field(min_length=1) and the prompt_not_empty validator,
\* which returns v.strip()
QueryRequestPrompt(raw) ==
    IF Len(raw) < 1 \/ Strip(raw) = <<>>
    THEN [ok |-> FALSE, prompt |-> <<>>]
    ELSE [ok |-> TRUE, prompt |-> Strip(raw)]

QueryPrompts ==
    {<<"Tell", SP, "me", SP, "about", SP, "Ramses", SP, "II">>,
     <<SP, "How", SP, "long", SP, "did", SP, "he", SP, "rule?", NL>>,
     <<SP, NL>>, <<>>}

QueryHintLists ==
    {<<>>,
     <<<<"Ramses", SP, "II">>>>,
     <<<<"Nefertiti">>,
       FailureMarker(2, <<"Image", SP, "description", SP, "failed", ":", SP, "timeout">>),
       <<"Ramses", SP, "II">>>>}

\* replies of the model to the rewrite prompt during /query
QueryRewriteOutcomes ==
    {[fail |-> TRUE, text |-> <<>>],
     [fail |-> FALSE, text |-> <<>>],
     [fail |-> FALSE, text |-> <<SP, DQ, SQ, SQ, DQ, NL>>],
     [fail |-> FALSE, text |-> <<DQ, "Ramses", SP, "II", SP, "reign", DQ, NL>>]}

\* what the index holds for a /query search: one of two opposite rankings
\* of the first documents of the corpus, cut at any length
QueryMatches ==
    LET ranking == [i \in 1..MaxQueryDocs |-> Doc(i)]
        Scored(q) == [i \in 1..Len(q) |-> [doc |-> q[i], score |-> Len(q) - i]]
    IN  {Scored(FirstN(ranking, n)) : n \in 0..MaxQueryDocs}
            \cup {Scored(FirstN(Reverse(ranking), n)) : n \in 0..MaxQueryDocs}

QueryIndexOutcomes ==
    {[fail |-> TRUE, matches |-> <<>>]}
        \cup {[fail |-> FALSE, matches |-> m] : m \in QueryMatches}

\* what the cross-encoder does with n pairs during /query: it fails, scores
\* them all alike, or scores them in rising or in falling order
QueryPredictOutcomes(n) ==
    {[fail |-> TRUE, scores |-> <<>>],
     [fail |-> FALSE, scores |-> [i \in 1..n |-> 1]],
     [fail |-> FALSE, scores |-> [i \in 1..n |-> i]],
     [fail |-> FALSE, scores |-> [i \in 1..n |-> n - i]]}

\* a conversation held by the collection before the server started
SeedStore ==
    "seed" :> [created_at |-> 0, updated_at |-> 2,
               messages |->
                   <<[role |-> "user", timestamp |-> 1,
                      content |-> <<"Tell", SP, "me", SP, "about", SP, "Ramses", SP, "II">>],
                     [role |-> "assistant", timestamp |-> 2,
                      content |-> <<"I", SP, "built", SP, "Abu", SP, "Simbel">>]>>]

\* a conversation older than the server's start that holds more messages
\* than one read of the history returns
LongStore ==
    "long" :> [created_at |-> -11, updated_at |-> 0,
               messages |->
                   [i \in 1..11 |->
                       [role |-> IF i % 2 = 1 THEN "user" ELSE "assistant",
                        timestamp |-> i - 11,
                        content |-> <<"m", ToString(i)>>]]]

\* a conversation opened through POST /conversations/ (create_conversation
\* of routers/conversations.py) that no turn has used yet
NewStore == create_conversation(<<>>, "new", 2)

FreshRequest(prompt, image_descriptions, conversation_id) ==
    [pc |-> "history", raw |-> prompt,   \* the prompt as sent, set on arrival
     prompt |-> prompt, image_descriptions |-> image_descriptions,
     conversation_id |-> conversation_id, history |-> <<>>,
     rewritten_query |-> <<>>, search_query |-> <<>>, k |-> 0,
     results |-> <<>>, context |-> <<>>, answer |-> <<>>, failed |-> "",
     stages |-> <<>>,   \* the stages entered so far, in order
     started |-> clock, \* the time the request arrived
     coarse |-> <<>>,   \* what similarity_search returned
     index_failed |-> FALSE,  \* the call to the vector index raised
     sent_id |-> conversation_id,  \* the conversation_id of the request body
     existed |-> conversation_id \in DOMAIN store,  \* it was stored on arrival
     rewriter_history |-> <<>>]  \* the history handed to rewrite_query

HTTPError(status, detail) == [status |-> status, detail |-> detail]

Init ==
    /\ call = [fn |-> "query_rag"]
    /\ ret = Pending
    /\ NoCalls
    /\ store \in {<<>>, SeedStore, LongStore, NewStore}
    /\ clock = 3
    /\ next_id = 1
    /\ settings_top_k \in {top_k, min_top_k, 0, max_top_k + 1}
    /\ req = IdleRequest
    /\ response = NoResponse
    /\ turns = 0

\* a handler that takes every prompt as it comes
QueryReceive_Unvalidated ==
    /\ call.fn = "query_rag"
    /\ req.pc = "idle"
    /\ turns < MaxTurns
    /\ \E raw \in QueryPrompts, descs \in QueryHintLists,
          cid \in {""} \cup DOMAIN store \cup {"ghost"} :
           /\ req' = [FreshRequest(Strip(raw), descs, cid) EXCEPT
                          !.raw = raw,
                          !.pc = IF cid = "" THEN "create" ELSE "history"]
           /\ response' = NoResponse
    /\ UNCHANGED <<hvars, logs, store, clock, next_id, settings_top_k, turns>>

\* a request arrives: pydantic validation, then lines 157-174 of query_rag
QueryReceive ==
    /\ call.fn = "query_rag"
    /\ req.pc = "idle"
    /\ turns < MaxTurns
    /\ \E raw \in QueryPrompts, descs \in QueryHintLists,
          cid \in {""} \cup DOMAIN store \cup {"ghost"} :
           LET v == QueryRequestPrompt(raw)
           IN  IF ~v.ok
               THEN /\ req' = [FreshRequest(<<>>, descs, cid) EXCEPT
                                   !.raw = raw, !.pc = "done", !.failed = "validate"]
                    /\ response' = HTTPError(422, "Prompt cannot be empty or just whitespace")
               ELSE IF Strip(v.prompt) = <<>>
               THEN /\ req' = [FreshRequest(<<>>, descs, cid) EXCEPT
                                   !.raw = raw, !.pc = "done", !.failed = "validate"]
                    /\ response' = HTTPError(400, "Prompt cannot be empty")
               ELSE /\ req' = [FreshRequest(Strip(v.prompt), descs, cid) EXCEPT
                                   !.raw = raw,
                                   !.pc = IF cid = "" THEN "create" ELSE "history"]
                    /\ response' = NoResponse
    /\ UNCHANGED <<hvars, logs, store, clock, next_id, settings_top_k, turns>>

\* history = await get_history(conversation_id, limit=10)
GetHistory ==
    /\ req.pc = "history"
    /\ LET history == get_history(store, req.conversation_id, 10)
       IN  req' = [req EXCEPT !.history = history,
                              !.pc = IF history = <<>> THEN "create" ELSE "add_user"]
    /\ UNCHANGED <<hvars, logs, store, clock, next_id, settings_top_k, response, turns>>

\* conversation_id = await create_conversation()
CreateConversation ==
    /\ req.pc = "create"
    /\ LET id == ToString(next_id)
       IN  /\ store' = create_conversation(store, id, clock)
           /\ req' = [req EXCEPT !.conversation_id = id, !.pc = "add_user"]
    /\ clock' = clock + 1
    /\ next_id' = next_id + 1
    /\ UNCHANGED <<hvars, logs, settings_top_k, response, turns>>

\* a handler that keeps the user message back instead of storing it
AddUserMessage_NotStored ==
    /\ req.pc = "add_user"
    /\ clock' = clock + 1
    /\ req' = [req EXCEPT !.pc = "rewrite"]
    /\ UNCHANGED <<hvars, logs, store, next_id, settings_top_k, response, turns>>

\* await add_message(conversation_id, "user", prompt)
AddUserMessage ==
    /\ req.pc = "add_user"
    /\ store' = add_message(store, req.conversation_id, "user", req.prompt, clock)
    /\ clock' = clock + 1
    /\ req' = [req EXCEPT !.pc = "rewrite"]
    /\ UNCHANGED <<hvars, logs, next_id, settings_top_k, response, turns>>

\* rewritten_query = llm_service.rewrite_query(prompt, history); nothing
\* around the call catches an exception
Rewrite ==
    /\ req.pc = "rewrite"
    /\ \E llm \in QueryRewriteOutcomes :
           LET r == rewrite_query(req.prompt, req.history, llm)
           IN  /\ llm_log' = llm_log \o [i \in 1..Len(r.prompts) |->
                                            [prompt |-> r.prompts[i], reply |-> llm]]
               /\ IF r.raised
                  THEN /\ req' = [req EXCEPT !.pc = "done", !.failed = "rewrite",
                                             !.rewriter_history = req.history,
                                             !.stages = Append(@, "rewrite")]
                       /\ response' = HTTPError(500, "Internal Server Error")
                  ELSE /\ req' = [req EXCEPT !.rewritten_query = r.value, !.pc = "enrich",
                                             !.rewriter_history = req.history,
                                             !.stages = Append(@, "rewrite")]
                       /\ UNCHANGED response
    /\ UNCHANGED <<hvars, index_log, predict_log, generate_log, rerank_log, store, clock, next_id,
                   settings_top_k, turns>>

\* search_query = enrich_query_with_images(rewritten_query, valid_descriptions)
Enrich ==
    /\ req.pc = "enrich"
    /\ req' = [req EXCEPT
                   !.search_query =
                       enrich_query_with_images(req.rewritten_query, req.image_descriptions),
                   !.stages = Append(@, "enrich"),
                   !.pc = "search"]
    /\ UNCHANGED <<hvars, logs, store, clock, next_id, settings_top_k, response, turns>>

\* k = settings.top_k; results = similarity_search(search_query, k=k)
VectorSearch ==
    /\ req.pc = "search"
    /\ \E index \in QueryIndexOutcomes :
           LET r == similarity_search(req.search_query, settings_top_k, settings_top_k, index)
           IN  /\ index_log' = index_log \o r.calls
               /\ IF r.raised = "ValueError"
                  THEN /\ req' = [req EXCEPT !.k = settings_top_k, !.pc = "done",
                                             !.failed = "search",
                                             !.stages = Append(@, "search")]
                       /\ response' = HTTPError(400, "top_k must be between")
                  ELSE IF r.raised = "RuntimeError"
                  THEN /\ req' = [req EXCEPT !.k = settings_top_k, !.pc = "done",
                                             !.failed = "search",
                                             !.index_failed = r.calls # <<>> /\ index.fail,
                                             !.stages = Append(@, "search")]
                       /\ response' = HTTPError(502, "Vector search failed")
                  ELSE /\ req' = [req EXCEPT !.k = settings_top_k, !.results = r.value,
                                             !.coarse = r.value, !.pc = "rerank",
                                             !.stages = Append(@, "search")]
                       /\ UNCHANGED response
    /\ UNCHANGED <<hvars, llm_log, predict_log, generate_log, rerank_log, store, clock, next_id,
                   settings_top_k, turns>>

\* a handler that calls the reranker a second time when the first call fails
Rerank_Retrying ==
    /\ req.pc = "rerank"
    /\ \E predict \in QueryPredictOutcomes(Len(req.results)) :
           LET r == rerank(req.search_query, req.results, rerank_top_k_query, predict)
           IN  /\ predict_log' = predict_log \o [i \in 1..Len(r.calls) |->
                                                     [pairs |-> r.calls[i],
                                                      fail |-> predict.fail]]
               /\ rerank_log' =
                      Append(rerank_log,
                             [query |-> req.search_query, documents |-> req.results,
                              top_k |-> rerank_top_k_query])
               /\ IF r.raised = "RuntimeError" /\ rerank_log = <<>>
                  THEN UNCHANGED <<req, response>>
                  ELSE IF r.raised = "RuntimeError"
                  THEN /\ req' = [req EXCEPT !.pc = "done", !.failed = "rerank",
                                             !.stages = Append(@, "rerank")]
                       /\ response' = HTTPError(502, "Vector search failed")
                  ELSE /\ req' = [req EXCEPT !.results = r.value, !.pc = "assemble",
                                             !.stages = Append(@, "rerank")]
                       /\ UNCHANGED response
    /\ UNCHANGED <<hvars, llm_log, index_log, generate_log, store, clock, next_id,
                   settings_top_k, turns>>

\* results = reranker_service.rerank(search_query, results, top_k=8)
Rerank ==
    /\ req.pc = "rerank"
    /\ \E predict \in QueryPredictOutcomes(Len(req.results)) :
           LET r == rerank(req.search_query, req.results, rerank_top_k_query, predict)
           IN  /\ predict_log' = predict_log \o [i \in 1..Len(r.calls) |->
                                                     [pairs |-> r.calls[i],
                                                      fail |-> predict.fail]]
               /\ rerank_log' =
                      Append(rerank_log,
                             [query |-> req.search_query, documents |-> req.results,
                              top_k |-> rerank_top_k_query])
               /\ IF r.raised = "RuntimeError"
                  THEN /\ req' = [req EXCEPT !.pc = "done", !.failed = "rerank",
                                             !.stages = Append(@, "rerank")]
                       /\ response' = HTTPError(502, "Vector search failed")
                  ELSE /\ req' = [req EXCEPT !.results = r.value, !.pc = "assemble",
                                             !.stages = Append(@, "rerank")]
                       /\ UNCHANGED response
    /\ UNCHANGED <<hvars, llm_log, index_log, generate_log, store, clock, next_id,
                   settings_top_k, turns>>

\* context = build_context_from_documents(results)
Assemble ==
    /\ req.pc = "assemble"
    /\ req' = [req EXCEPT !.context = build_context_from_documents(req.results),
                          !.stages = Append(@, "assemble"),
                          !.pc = "generate"]
    /\ UNCHANGED <<hvars, logs, store, clock, next_id, settings_top_k, response, turns>>

\* a handler that hands the enriched search string to the generator
Generate_WithSearchQuery ==
    /\ req.pc = "generate"
    /\ \E llm \in AnswerOutcomes :
           LET r == generate_with_context(req.search_query, req.context,
                                          req.image_descriptions, req.history, llm)
           IN  /\ llm_log' = llm_log \o [i \in 1..Len(r.prompts) |->
                                            [prompt |-> r.prompts[i], reply |-> llm]]
               /\ generate_log' =
                      Append(generate_log,
                             [query |-> req.search_query, context |-> req.context,
                              image_descriptions |-> req.image_descriptions,
                              history |-> req.history])
               /\ IF r.raised = "RuntimeError"
                  THEN /\ req' = [req EXCEPT !.pc = "done", !.failed = "generate",
                                             !.stages = Append(@, "generate")]
                       /\ response' = HTTPError(502, "Answer generation failed")
                  ELSE /\ req' = [req EXCEPT !.answer = r.value, !.pc = "add_assistant",
                                             !.stages = Append(@, "generate")]
                       /\ UNCHANGED response
    /\ UNCHANGED <<hvars, index_log, predict_log, rerank_log, store, clock, next_id,
                   settings_top_k, turns>>

\* a handler that reads the history again when it calls the generator
Generate_RereadsHistory ==
    /\ req.pc = "generate"
    /\ \E llm \in AnswerOutcomes :
           LET history == get_history(store, req.conversation_id, 10)
               r == generate_with_context(req.prompt, req.context,
                                          req.image_descriptions, history, llm)
           IN  /\ llm_log' = llm_log \o [i \in 1..Len(r.prompts) |->
                                            [prompt |-> r.prompts[i], reply |-> llm]]
               /\ generate_log' =
                      Append(generate_log,
                             [query |-> req.prompt, context |-> req.context,
                              image_descriptions |-> req.image_descriptions,
                              history |-> history])
               /\ IF r.raised = "RuntimeError"
                  THEN /\ req' = [req EXCEPT !.pc = "done", !.failed = "generate",
                                             !.stages = Append(@, "generate")]
                       /\ response' = HTTPError(502, "Answer generation failed")
                  ELSE /\ req' = [req EXCEPT !.answer = r.value, !.pc = "add_assistant",
                                             !.stages = Append(@, "generate")]
                       /\ UNCHANGED response
    /\ UNCHANGED <<hvars, index_log, predict_log, rerank_log, store, clock, next_id,
                   settings_top_k, turns>>

\* answer = llm_service.generate_with_context(query=prompt, context=context,
\*     image_descriptions=valid_descriptions, history=history)
Generate ==
    /\ req.pc = "generate"
    /\ \E llm \in AnswerOutcomes :
           LET r == generate_with_context(req.prompt, req.context,
                                          req.image_descriptions, req.history, llm)
           IN  /\ llm_log' = llm_log \o [i \in 1..Len(r.prompts) |->
                                            [prompt |-> r.prompts[i], reply |-> llm]]
               /\ generate_log' =
                      Append(generate_log,
                             [query |-> req.prompt, context |-> req.context,
                              image_descriptions |-> req.image_descriptions,
                              history |-> req.history])
               /\ IF r.raised = "RuntimeError"
                  THEN /\ req' = [req EXCEPT !.pc = "done", !.failed = "generate",
                                             !.stages = Append(@, "generate")]
                       /\ response' = HTTPError(502, "Answer generation failed")
                  ELSE /\ req' = [req EXCEPT !.answer = r.value, !.pc = "add_assistant",
                                             !.stages = Append(@, "generate")]
                       /\ UNCHANGED response
    /\ UNCHANGED <<hvars, index_log, predict_log, rerank_log, store, clock, next_id,
                   settings_top_k, turns>>

\* await add_message(conversation_id, "assistant", answer), then the
\* QueryResponse is returned
AddAssistantMessage ==
    /\ req.pc = "add_assistant"
    /\ store' = add_message(store, req.conversation_id, "assistant", req.answer, clock)
    /\ clock' = clock + 1
    /\ req' = [req EXCEPT !.pc = "done"]
    /\ response' = [status |-> 200, answer |-> req.answer,
                    image_descriptions |-> req.image_descriptions,
                    search_query |-> req.search_query, top_k |-> req.k,
                    conversation_id |-> req.conversation_id]
    /\ UNCHANGED <<hvars, logs, next_id, settings_top_k, turns>>

\* the response has gone out and the handler's frame is dropped
Finish ==
    /\ req.pc = "done"
    /\ req' = IdleRequest
    /\ response' = NoResponse
    /\ turns' = turns + 1
    /\ llm_log' = <<>> /\ index_log' = <<>> /\ predict_log' = <<>>
    /\ generate_log' = <<>> /\ rerank_log' = <<>>
    /\ UNCHANGED <<hvars, store, clock, next_id, settings_top_k>>

Next ==
    \/ QueryReceive
    \/ GetHistory
    \/ CreateConversation
    \/ AddUserMessage
    \/ Rewrite
    \/ Enrich
    \/ VectorSearch
    \/ Rerank
    \/ Assemble
    \/ Generate
    \/ AddAssistantMessage
    \/ Finish

Spec == Init /\ [][Next]_vars

\* ------------------------------------------------ claims about /query
\* the request has been through the named stage
Rewritten ==
    \/ req.pc \in {"enrich", "search", "rerank", "assemble", "generate", "add_assistant"}
    \/ req.pc = "done" /\ req.failed # "validate"

Assembled ==
    \/ req.pc \in {"generate", "add_assistant"}
    \/ req.pc = "done" /\ req.failed \in {"", "generate"}

Generated ==
    \/ req.pc = "add_assistant"
    \/ req.pc = "done" /\ req.failed \in {"", "generate"}

\* C2: with a non-empty history, a rewrite whose LLM call fails or whose
\* reply is empty once normalised gives back the current query and raises
\* nothing: the request goes on to retrieval and can only fail later.
C2_RewriteFallsBackToQuery ==
    (Rewritten /\ req.history # <<>>
         /\ (llm_log[1].reply.fail
                \/ CleanRewritten(Strip(llm_log[1].reply.text)) = <<>>))
        => /\ req.rewritten_query = req.prompt
           /\ req.failed \in {"", "search", "rerank", "generate"}
           /\ req.pc \notin {"enrich", "search"} => (index_log # <<>> \/ req.failed = "search")

\* C2 witness: the rewriter's LLM call failed on a two-message history and
\* the vector index was then searched with the unmodified query.
C2_Witness ==
    /\ req.pc = "rerank"
    /\ Len(req.history) = 2
    /\ llm_log[1].reply.fail
    /\ Len(index_log) = 1
    /\ index_log[1].query = req.prompt
    /\ req.prompt = <<"How", SP, "long", SP, "did", SP, "he", SP, "rule?">>

\* C8: when the cross-encoder fails, the request fails with the upstream
\* error; no context is assembled from the coarse candidates and the answer
\* generator is not called.
C8_RerankFailureIsFatal ==
    (predict_log # <<>> /\ predict_log[1].fail)
        => /\ req.pc = "done"
           /\ req.failed = "rerank"
           /\ response.status = 502
           /\ req.context = <<>>
           /\ generate_log = <<>>
           /\ \A i \in 1..Len(llm_log) :
                  llm_log[i].prompt = RewritePrompt(req.prompt, req.history)

\* C8 witness: scoring failed on two coarse candidates.
C8_Witness ==
    /\ req.pc = "done"
    /\ req.failed = "rerank"
    /\ Len(req.results) = 2
    /\ Len(predict_log) = 1
    /\ predict_log[1].fail
    /\ response.status = 502

\* C9: assembling no documents gives the non-empty "no context" sentinel,
\* assembling some documents never gives it, and with no reranked documents
\* the answer generator is called with exactly the sentinel as context.
C9_NoContextSentinel ==
    /\ NoContextSentinel # <<>>
    /\ Assembled => (req.results = <<>> <=> req.context = NoContextSentinel)
    /\ Generated =>
           /\ Len(generate_log) = 1
           /\ generate_log[1].context = req.context
           /\ req.results = <<>> => generate_log[1].context = NoContextSentinel

\* C9 witness: the index found nothing and the generator was called.
C9_Witness ==
    /\ Generated
    /\ req.results = <<>>
    /\ Len(index_log) = 1
    /\ generate_log[1].context = <<"No", SP, "relevant", SP, "context", SP, "found.">>

\* text.split("\n\n")
RECURSIVE SplitBlocks(_)
SplitBlocks(text) ==
    IF \E i \in 1..(Len(text) - 1) : text[i] = NL /\ text[i + 1] = NL
    THEN LET i == CHOOSE i \in 1..(Len(text) - 1) :
                      /\ text[i] = NL /\ text[i + 1] = NL
                      /\ \A j \in 1..(i - 1) : ~(text[j] = NL /\ text[j + 1] = NL)
         IN  <<SubSeq(text, 1, i - 1)>> \o SplitBlocks(SubSeq(text, i + 2, Len(text)))
    ELSE <<text>>

EndsWith(s, suffix) ==
    Len(s) >= Len(suffix) /\ SubSeq(s, Len(s) - Len(suffix) + 1, Len(s)) = suffix

\* block is the block of the i-th document of the reranked results
BlockHolds(block, i, scored) ==
    /\ StartsWith(block, <<"[Source", SP, ToString(i), "]", SP, "(Score:", SP,
                           ToString(scored.score), ".000", ")", NL>>)
    /\ EndsWith(block, <<NL, "Content:", SP>> \o Strip(scored.doc.page_content))

\* C10: the context of a non-empty reranked sequence has one block per
\* document, block i is labelled i and holds document i, and the prompt the
\* answer generator sends to the LLM carries that context unchanged.
C10_ContextKeepsRerankOrder ==
    /\ (Assembled /\ req.results # <<>>)
           => LET blocks == SplitBlocks(req.context)
              IN  /\ Len(blocks) = Len(req.results)
                  /\ \A i \in 1..Len(blocks) : BlockHolds(blocks[i], i, req.results[i])
    /\ (Generated /\ req.results # <<>>)
           => /\ generate_log[1].context = req.context
              /\ Contains(llm_log[Len(llm_log)].prompt,
                          <<"### Retrieved Context (Your Chronicles):", NL>>
                              \o req.context \o <<NL>>)

\* C10 witness: two reranked documents with different scores reached the
\* generator.
C10_Witness ==
    /\ Generated
    /\ Len(req.results) = 2
    /\ req.results[1].doc = Doc(2)
    /\ req.results[1].score > req.results[2].score
    /\ Len(SplitBlocks(req.context)) = 2

\* the stages of query_rag between the conversation bookkeeping and the
\* reply, in the order of the handler's body
PipelineOrder == <<"rewrite", "enrich", "search", "rerank", "assemble", "generate">>

Succeeded == req.pc = "done" /\ req.failed = ""

\* C11: the stages of a request are entered in the order rewrite, enrich,
\* vector search, rerank, assemble, generate; in a request that succeeded the
\* index was searched once with the enriched string and settings.top_k, the
\* reranker was called once with that string and what the index returned,
\* and the generator was called once with the request's own prompt (neither
\* rewritten nor enriched), the assembled context and the request's hints.
C11_StagesInOrderWithArguments ==
    /\ req.pc # "idle" => req.stages = FirstN(PipelineOrder, Len(req.stages))
    /\ Succeeded =>
           /\ req.stages = PipelineOrder
           /\ req.search_query =
                  enrich_query_with_images(req.rewritten_query, req.image_descriptions)
           /\ index_log = <<[query |-> req.search_query, k |-> settings_top_k]>>
           /\ rerank_log = <<[query |-> req.search_query, documents |-> req.coarse,
                              top_k |-> rerank_top_k_query]>>
           /\ Len(predict_log) <= 1
           /\ req.context = build_context_from_documents(req.results)
           /\ generate_log = <<[query |-> req.prompt, context |-> req.context,
                                image_descriptions |-> req.image_descriptions,
                                history |-> req.history]>>
           /\ EndsWith(llm_log[Len(llm_log)].prompt,
                       <<"### User Question:", NL>> \o req.prompt
                           \o <<NL, NL, "### Answer:">>)

\* C11 witness: a follow-up question with image hints was rewritten and
\* enriched, two documents were found, and the request succeeded.
C11_Witness ==
    /\ Succeeded
    /\ req.prompt = <<"How", SP, "long", SP, "did", SP, "he", SP, "rule?">>
    /\ req.rewritten_query = <<"Ramses", SP, "II", SP, "reign">>
    /\ req.search_query # req.rewritten_query
    /\ Len(req.coarse) = 2
    /\ generate_log[1].query = req.prompt
    /\ response.status = 200

\* C12: a request whose reranked result list is empty, so that the context
\* is assembled from zero documents, is answered with exactly the refusal
\* sentence.
C12_NoDocumentsAnswerIsRefusal ==
    (response.status = 200 /\ req.results = <<>>)
        => response.answer = RefusalSentence

\* ------------------- ConversationService called by concurrent coroutines
\* Each coroutine runs one service method at a time.  A method runs without
\* interruption up to its await on the Motor call; the collection applies
\* the awaited operations one at a time, in the order they reach it, which
\* need not be the order in which the coroutines started them.
Tasks == 1..MaxTasks

IdleTask == [fn |-> "idle"]

\* every conversation id a caller may hold: stored, handed out earlier, or
\* never issued
KnownIds == {"seed", "ghost"} \cup {ToString(i) : i \in 1..(next_id - 1)}

StoreLimits == {1, 2, 10}

InitStore ==
    /\ call = [t \in Tasks |-> IdleTask]
    /\ ret = [t \in Tasks |-> Pending]
    /\ NoCalls
    /\ store \in {<<>>, SeedStore}
    /\ clock = 3
    /\ next_id = 1
    /\ settings_top_k = top_k
    /\ req = IdleRequest
    /\ response = NoResponse
    /\ turns = 0

StoreFrame == UNCHANGED <<logs, settings_top_k, req, response>>

\* a coroutine enters add_message and reads the clock (line 91)
StartAddMessage(t) ==
    /\ call[t] = IdleTask
    /\ turns < MaxOps
    /\ \E id \in KnownIds :
           call' = [call EXCEPT ![t] =
                        [fn |-> "add_message", op |-> turns + 1,
                         conversation_id |-> id,
                         role |-> IF turns % 2 = 0 THEN "user" ELSE "assistant",
                         content |-> <<"m", ToString(turns + 1)>>, now |-> clock]]
    /\ clock' = clock + 1
    /\ turns' = turns + 1
    /\ ret' = [ret EXCEPT ![t] = Pending]
    /\ UNCHANGED <<store, next_id>>
    /\ StoreFrame

\* its update_one reaches the collection (lines 101-112)
FinishAddMessage(t) ==
    /\ call[t].fn = "add_message"
    /\ LET c == call[t]
       IN  /\ store' = add_message(store, c.conversation_id, c.role, c.content, c.now)
           /\ ret' = [ret EXCEPT ![t] =
                          [status |-> "returned", fn |-> "add_message", op |-> c.op,
                           conversation_id |-> c.conversation_id,
                           warned |-> c.conversation_id \notin DOMAIN store]]
    /\ call' = [call EXCEPT ![t] = IdleTask]
    /\ UNCHANGED <<clock, next_id, turns>>
    /\ StoreFrame

\* a coroutine enters create_conversation: uuid4 and the clock (lines 38-39)
StartCreateConversation(t) ==
    /\ call[t] = IdleTask
    /\ turns < MaxOps
    /\ call' = [call EXCEPT ![t] =
                    [fn |-> "create_conversation", op |-> turns + 1,
                     conversation_id |-> ToString(next_id),
                     now |-> clock]]
    /\ next_id' = next_id + 1
    /\ clock' = clock + 1
    /\ turns' = turns + 1
    /\ ret' = [ret EXCEPT ![t] = Pending]
    /\ UNCHANGED store
    /\ StoreFrame

\* its insert_one reaches the collection (lines 48-50)
FinishCreateConversation(t) ==
    /\ call[t].fn = "create_conversation"
    /\ store' = create_conversation(store, call[t].conversation_id, call[t].now)
    /\ ret' = [ret EXCEPT ![t] =
                   [status |-> "returned", fn |-> "create_conversation",
                    op |-> call[t].op, value |-> call[t].conversation_id]]
    /\ call' = [call EXCEPT ![t] = IdleTask]
    /\ UNCHANGED <<clock, next_id, turns>>
    /\ StoreFrame

\* get_history: one find_one (lines 65-73)
CallGetHistory(t) ==
    /\ call[t] = IdleTask
    /\ turns < MaxOps
    /\ \E id \in KnownIds, limit \in StoreLimits :
           ret' = [ret EXCEPT ![t] =
                       [status |-> "returned", fn |-> "get_history", op |-> turns + 1,
                        conversation_id |-> id, limit |-> limit,
                        value |-> get_history(store, id, limit)]]
    /\ turns' = turns + 1
    /\ UNCHANGED <<call, store, clock, next_id>>
    /\ StoreFrame

\* delete_conversation: one delete_one (lines 153-156)
CallDeleteConversation(t) ==
    /\ call[t] = IdleTask
    /\ turns < MaxOps
    /\ \E id \in KnownIds :
           /\ store' = delete_conversation(store, id)
           /\ ret' = [ret EXCEPT ![t] =
                          [status |-> "returned", fn |-> "delete_conversation",
                           op |-> turns + 1,
                           conversation_id |-> id, value |-> id \in DOMAIN store]]
    /\ turns' = turns + 1
    /\ UNCHANGED <<call, clock, next_id>>
    /\ StoreFrame

NextStore ==
    \E t \in Tasks :
        \/ StartAddMessage(t)
        \/ FinishAddMessage(t)
        \/ StartCreateConversation(t)
        \/ FinishCreateConversation(t)
        \/ CallGetHistory(t)
        \/ CallDeleteConversation(t)

SpecStore == InitStore /\ [][NextStore]_vars

\* coroutine t makes the step that applies method fn to the collection (the
\* results carry the number of their call, so no two are equal)
Applies(t, fn) ==
    /\ ret'[t] # ret[t]
    /\ ret'[t].status = "returned"
    /\ ret'[t].fn = fn

\* C13: get_history(id, limit) on a stored conversation with messages M
\* returns the last min(limit, |M|) messages of M, oldest first; on an id
\* that is not stored it returns the empty list.
C13_HistoryIsRecentTail ==
    [][\A t \in Tasks :
          Applies(t, "get_history") =>
              LET id == ret'[t].conversation_id
                  out == ret'[t].value
              IN  IF id \in DOMAIN store
                  THEN LET M == store[id].messages
                           n == Min(ret'[t].limit, Len(M))
                       IN  /\ Len(out) = n
                           /\ \A i \in 1..n : out[i] = M[Len(M) - n + i]
                  ELSE out = <<>>]_vars

\* C13 witness: a history of limit 2 read from a conversation that holds
\* three messages gave the second and the third.
C13_Witness ==
    \E t \in Tasks :
        /\ ret[t].status = "returned"
        /\ ret[t].fn = "get_history"
        /\ ret[t].limit = 2
        /\ ret[t].conversation_id \in DOMAIN store
        /\ LET M == store[ret[t].conversation_id].messages
           IN  Len(M) = 3 /\ ret[t].value = <<M[2], M[3]>>

\* C14: an add_message whose conversation_id matches no stored conversation
\* returns normally (after a warning) and leaves the collection as it was:
\* no conversation appears and none changes.
C14_AppendToUnknownIdIsNoOp ==
    [][\A t \in Tasks :
          (Applies(t, "add_message") /\ ret'[t].conversation_id \notin DOMAIN store)
              => /\ store' = store
                 /\ ret'[t].conversation_id \notin DOMAIN store'
                 /\ ret'[t].warned]_vars

\* C14 witness: an add_message for an id that was never issued has returned
\* beside a stored conversation.
C14_Witness ==
    \E t \in Tasks :
        /\ ret[t].status = "returned"
        /\ ret[t].fn = "add_message"
        /\ ret[t].conversation_id = "ghost"
        /\ ret[t].warned
        /\ store = SeedStore

\* the messages stored since the request arrived, role and content, in the
\* conversation the request works on
TurnMessages ==
    IF req.conversation_id \in DOMAIN store
    THEN LET fresh == SelectSeq(store[req.conversation_id].messages,
                                LAMBDA m : m.timestamp >= req.started)
         IN  [i \in 1..Len(fresh) |-> [role |-> fresh[i].role, content |-> fresh[i].content]]
    ELSE <<>>

UserTurn == [role |-> "user", content |-> req.prompt]

\* C15: the turn's user message is stored before the rewriter, the index,
\* the reranker or the generator is called; the assistant message is stored
\* only once generation has succeeded; a turn that fails in the vector
\* search, the reranker or the generator leaves its user message and no
\* assistant message.
C15_UserEarlyAssistantAfterSuccess ==
    req.pc # "idle" =>
        /\ TurnMessages \in {<<>>, <<UserTurn>>,
                              <<UserTurn, [role |-> "assistant", content |-> req.answer]>>}
        /\ TurnMessages = <<>> => (req.stages = <<>> /\ NoCalls)
        /\ req.stages # <<>> => TurnMessages # <<>>
        /\ Len(TurnMessages) = 2 => (Succeeded /\ Len(generate_log) = 1)
        /\ Succeeded => Len(TurnMessages) = 2
        /\ (req.pc = "done" /\ req.failed \in {"search", "rerank", "generate"})
               => TurnMessages = <<UserTurn>>

\* C15 witness: generation failed in a follow-up turn and the conversation
\* ends with the turn's user message.
C15_Witness ==
    /\ req.pc = "done"
    /\ req.failed = "generate"
    /\ req.conversation_id = "seed"
    /\ Len(store["seed"].messages) = 3
    /\ store["seed"].messages[3].role = "user"
    /\ store["seed"].messages[3].content = req.prompt

IsPrefix(a, b) == Len(a) <= Len(b) /\ SubSeq(b, 1, Len(a)) = a

\* C16: every step leaves each conversation it keeps with its old messages
\* as a prefix of the new ones, and with message timestamps that increase
\* strictly along the stored order, also when add_message calls on one
\* conversation_id overlap.
C16_AppendOnlyAndTimeOrdered ==
    [][/\ \A id \in DOMAIN store \cap DOMAIN store' :
              IsPrefix(store[id].messages, store'[id].messages)
       /\ \A id \in DOMAIN store' :
              \A i \in 1..(Len(store'[id].messages) - 1) :
                  store'[id].messages[i].timestamp
                      < store'[id].messages[i + 1].timestamp]_vars

\* C17: no step lowers the updated_at of a conversation it keeps, whatever
\* the interleaving of add_message calls, and updated_at is never earlier
\* than created_at.
C17_UpdatedAtNeverDecreases ==
    [][/\ \A id \in DOMAIN store \cap DOMAIN store' :
              store'[id].updated_at >= store[id].updated_at
       /\ \A id \in DOMAIN store' :
              store'[id].updated_at >= store'[id].created_at]_vars

\* ------------------------- describe_images_batch and its concurrent tasks
\* the images of a batch: two that are described, two whose call fails
BatchImageOutcomes ==
    {[fail |-> FALSE, text |-> <<"Ramses", SP, "II">>],
     [fail |-> FALSE, text |-> <<SP, "Nefertiti", NL>>],
     [fail |-> TRUE, text |-> <<"timeout">>],
     [fail |-> TRUE, text |-> <<"quota", SP, "[Image", "]">>]}

NotDone == [raised |-> FALSE, text |-> <<"<pending>">>]

\* a gather that lists the outcomes as the tasks complete
gather_AsCompleted(outcomes, completed) ==
    [k \in 1..Len(completed) |-> outcomes[completed[k]]]

\* asyncio.gather(*tasks, return_exceptions=True): the outcomes in the order
\* of the tasks, whatever order they completed in
gather(outcomes, completed) ==
    [i \in 1..Len(outcomes) |-> outcomes[i]]

\* the loop over enumerate(descriptions), lines 147-156
BatchResults(descriptions) ==
    [i \in 1..Len(descriptions) |->
        IF descriptions[i].raised
        THEN FailureMarker(i, descriptions[i].text)
        ELSE descriptions[i].text]

InitBatch ==
    /\ \E images \in SeqUpTo(BatchImageOutcomes, MaxHints) :
           /\ call = [fn |-> "describe_images_batch", images |-> images]
           /\ ret = [status |-> "gathering",
                     outcomes |-> [i \in 1..Len(images) |-> NotDone],
                     completed |-> <<>>]
    /\ NoCalls
    /\ NoServer

\* the executor finishes the call of one task that is still running
CompleteImage ==
    /\ ret.status = "gathering"
    /\ \E i \in 1..Len(call.images) :
           /\ \A k \in 1..Len(ret.completed) : ret.completed[k] # i
           /\ ret' = [ret EXCEPT !.outcomes[i] = describe_image_async(call.images[i]),
                                 !.completed = Append(@, i)]
    /\ UNCHANGED <<pvars, call, llm_log, index_log, predict_log>>

\* every task is done: gather returns and the batch builds its result list
ReturnBatch ==
    /\ ret.status = "gathering"
    /\ Len(ret.completed) = Len(call.images)
    /\ ret' = [status |-> "returned", completed |-> ret.completed,
               value |-> BatchResults(gather(ret.outcomes, ret.completed))]
    /\ UNCHANGED <<pvars, call, llm_log, index_log, predict_log>>

NextBatch == CompleteImage \/ ReturnBatch

SpecBatch == InitBatch /\ [][NextBatch]_vars

\* C18: a batch of n images never raises and returns n results; slot i holds
\* the stripped description of image i when its call succeeded, and otherwise
\* the failure marker numbered i around that call's error, in whatever order
\* the calls completed.
C18_BatchKeepsOrderAndIsolatesFailures ==
    /\ ret.status \in {"gathering", "returned"}
    /\ ret.status = "returned" =>
           /\ Len(ret.value) = Len(call.images)
           /\ \A i \in 1..Len(call.images) :
                  IF call.images[i].fail
                  THEN /\ IsFailureHint(ret.value[i])
                       /\ StartsWith(ret.value[i], <<"[Image", SP, ToString(i), SP>>)
                       /\ Contains(ret.value[i], call.images[i].text \o <<"]">>)
                  ELSE ret.value[i] = Strip(call.images[i].text)

\* C18 witness: of three images the third completed first and the second
\* failed last; slots 1 and 3 hold their descriptions.
C18_Witness ==
    /\ ret.status = "returned"
    /\ ret.completed = <<3, 1, 2>>
    /\ call.images[2].fail
    /\ ret.value[1] = <<"Ramses", SP, "II">>
    /\ IsFailureHint(ret.value[2])
    /\ ret.value[3] = <<"Nefertiti">>

\* settings.top_k lies outside [min_top_k, max_top_k]
TopKOutOfBounds == settings_top_k < min_top_k \/ settings_top_k > max_top_k

\* C19: a request in which the vector index, the cross-encoder or the
\* answering LLM call failed ends with status 502; a request whose top_k is
\* out of bounds ends at the search with status 400 and without a call to
\* the index; and status 400 is given to no request with a failed dependency.
C19_UpstreamIs502ValidationIs400 ==
    req.pc # "idle" =>
        /\ req.index_failed => response.status = 502
        /\ (predict_log # <<>> /\ predict_log[1].fail) => response.status = 502
        /\ (generate_log # <<>> /\ llm_log[Len(llm_log)].reply.fail)
               => response.status = 502
        /\ (TopKOutOfBounds /\ Len(req.stages) >= 3)
               => (response.status = 400 /\ req.failed = "search" /\ index_log = <<>>)
        /\ response.status = 400
               => (TopKOutOfBounds /\ ~req.index_failed /\ predict_log = <<>>
                      /\ generate_log = <<>>)
        /\ (response.status = 502 /\ req.failed = "search") => req.index_failed

\* C19 witness: the answering LLM call failed after a search and a rerank
\* that worked, and the request ended with 502.
C19_Witness ==
    /\ req.pc = "done"
    /\ req.failed = "generate"
    /\ Len(index_log) = 1
    /\ Len(predict_log) = 1
    /\ ~predict_log[1].fail
    /\ llm_log[Len(llm_log)].reply.fail
    /\ response.status = 502

\* C20: a request whose prompt is empty or all whitespace is answered with a
\* validation error by the step that receives it; that step creates no
\* conversation, stores no message and calls neither the rewriter, the
\* index, the reranker nor the generator, and the request does nothing else.
C20_BlankPromptRejectedFirst ==
    [][(req'.pc # "idle" /\ \A i \in 1..Len(req'.raw) : req'.raw[i] \in Whitespace)
          => /\ req'.pc = "done"
             /\ req'.failed = "validate"
             /\ response'.status \in {400, 422}
             /\ store' = store
             /\ next_id' = next_id
             /\ clock' = clock
             /\ llm_log' = <<>> /\ index_log' = <<>> /\ predict_log' = <<>>
             /\ generate_log' = <<>> /\ rerank_log' = <<>>]_vars

\* C20 witness: a prompt of a blank and a line break sent with the id of a
\* stored conversation was rejected and the conversation is as it was.
C20_Witness ==
    /\ req.pc = "done"
    /\ req.failed = "validate"
    /\ req.raw = <<SP, NL>>
    /\ req.conversation_id = "seed"
    /\ response.status = 422
    /\ store = SeedStore
    /\ NoCalls

\* C21: a request that names a conversation stored when it arrives, and
\* that succeeds, answers with that conversation_id, and that conversation
\* ends with the turn's user message and the answer.
C21_ExistingConversationIsContinued ==
    (Succeeded /\ req.existed)
        => /\ response.conversation_id = req.sent_id
           /\ req.sent_id \in DOMAIN store
           /\ LET M == store[req.sent_id].messages
              IN  /\ Len(M) >= 2
                  /\ M[Len(M) - 1].role = "user"
                  /\ M[Len(M) - 1].content = req.prompt
                  /\ M[Len(M)].role = "assistant"
                  /\ M[Len(M)].content = req.answer

\* C22: whenever the reranker is called, the width it is asked for is at
\* most the k the vector index was searched with, for every settings.top_k
\* that passes the bounds check.
C22_RerankWidthAtMostTopK ==
    \A i \in 1..Len(rerank_log) :
        /\ Len(index_log) = 1
        /\ rerank_log[i].top_k <= index_log[1].k

\* ------------------------------------------------------------ TTSService
\* None, and the values Python's `or` and `not` take for false
None == "<None>"
Falsy(v) == v \in {None, ""}

\* a or b
Or(a, b) == IF Falsy(a) THEN b ELSE a

\* str.lower() of the provider names in use
Lower(name) ==
    IF name = "ElevenLabs" THEN "elevenlabs"
    ELSE IF name = "Deepgram" THEN "deepgram"
    ELSE name

\* requests.post: the provider answers with a status and a body
HTTPOutcomes == {[status_code |-> 200, content |-> "mp3"],
                 [status_code |-> 401, content |-> "denied"]}

\* a selection that never looks at the other gender's voice id
ElevenLabsVoiceId_NoFallback(voice, female, male) ==
    IF voice \in {None, "female", "male"}
    THEN IF voice = "male" THEN male ELSE female
    ELSE voice

\* lines 53-60 of tts_elevenlabs: the voice id
ElevenLabsVoiceId(voice, female, male) ==
    IF voice \in {None, "female", "male"}
    THEN IF voice = "male" THEN Or(male, female) ELSE Or(female, male)
    ELSE voice

\* TTSService.tts_elevenlabs(text, voice, model)
tts_elevenlabs(text, voice, model, s, http) ==
    IF Falsy(s.elevenlabs_api_key)
    THEN [raised |-> "RuntimeError", value |-> "", posts |-> <<>>]
    ELSE LET model_id == Or(model, s.elevenlabs_default_model)
             voice_id == ElevenLabsVoiceId(voice, s.elevenlabs_voice_female,
                                           s.elevenlabs_voice_male)
             post == [host |-> "api.elevenlabs.io", voice_id |-> voice_id,
                      model |-> model_id, text |-> text]
         IN  IF Falsy(voice_id)
             THEN [raised |-> "RuntimeError", value |-> "", posts |-> <<>>]
             ELSE IF http.status_code >= 400
             THEN [raised |-> "RuntimeError", value |-> "", posts |-> <<post>>]
             ELSE [raised |-> "", value |-> http.content, posts |-> <<post>>]

\* TTSService.tts_deepgram(text, model)
tts_deepgram(text, model, s, http) ==
    IF Falsy(s.deepgram_api_key)
    THEN [raised |-> "RuntimeError", value |-> "", posts |-> <<>>]
    ELSE LET post == [host |-> "api.deepgram.com", voice_id |-> None,
                      model |-> Or(model, s.deepgram_tts_model), text |-> text]
         IN  IF http.status_code >= 400
             THEN [raised |-> "RuntimeError", value |-> "", posts |-> <<post>>]
             ELSE [raised |-> "", value |-> http.content, posts |-> <<post>>]

\* TTSService.synthesize(text, provider, voice, model)
synthesize(text, provider, voice, model, s, http) ==
    LET selected_provider == Lower(Or(provider, s.tts_provider))
    IN  IF selected_provider = "elevenlabs"
        THEN tts_elevenlabs(text, voice, model, s, http)
        ELSE IF selected_provider = "deepgram"
        THEN tts_deepgram(text, model, s, http)
        ELSE [raised |-> "ValueError", value |-> "", posts |-> <<>>]

\* the TTS part of Settings: keys and voice ids set, unset or empty
TTSSettings ==
    [tts_provider : {"elevenlabs"},
     elevenlabs_api_key : {None, "xi-key"},
     deepgram_api_key : {None, "dg-key"},
     elevenlabs_voice_female : {None, "", "voice-F"},
     elevenlabs_voice_male : {None, "voice-M"},
     elevenlabs_default_model : {"eleven_multilingual_v2"},
     deepgram_tts_model : {"aura-asteria-en"}]

\* ----------------------------------------------------- POST /voice-query
rerank_top_k == 10     \* Settings.rerank_top_k

\* str.replace(old, ""): every occurrence of the atom is dropped
Remove(text, old) == SelectSeq(text, LAMBDA a : a # old)

\* base64.b64encode(audio_out).decode("utf-8")
b64encode(content) == <<"base64", content>>

\* stt_service.transcribe_audio: Deepgram fails (or hears nothing), or
\* returns a transcript
STTOutcomes ==
    {[fail |-> TRUE, transcript |-> <<>>],
     [fail |-> FALSE, transcript |-> <<"Who", SP, "built", SP, "Karnak">>]}

\* the settings of the TTS providers a deployment may run with
VoiceSettings ==
    {s \in TTSSettings : s.deepgram_api_key = "dg-key"
                            /\ s.elevenlabs_voice_female # ""}

VoiceRequest(audio, tts_provider, gender, tts_model) ==
    [pc |-> "transcribe", audio |-> audio, tts_provider |-> tts_provider,
     gender |-> gender, tts_model |-> tts_model,
     transcript |-> <<>>, k |-> 0, results |-> <<>>, context |-> <<>>,
     answer |-> <<>>, failed |-> "",
     stages |-> <<>>,   \* the stages entered so far, in order
     posts |-> <<>>]    \* the HTTP requests sent to a TTS provider

InitVoice ==
    /\ call \in [fn : {"voice_query_rag"}, settings : VoiceSettings]
    /\ ret = Pending
    /\ NoCalls
    /\ store = <<>>
    /\ clock = 1
    /\ next_id = 1
    /\ settings_top_k \in {top_k, min_top_k, 0}
    /\ req = IdleRequest
    /\ response = NoResponse
    /\ turns = 0

VoiceFrame == <<hvars, store, clock, next_id, settings_top_k, turns>>

\* the multipart form arrives and the audio is read
VoiceReceive ==
    /\ call.fn = "voice_query_rag"
    /\ req.pc = "idle"
    /\ turns < MaxTurns
    /\ \E audio \in {"", "audio-bytes"},
          tts_provider \in {None, "Deepgram", "azure"},
          gender \in {None, "male"} :
           IF audio = ""
           THEN /\ req' = [VoiceRequest(audio, tts_provider, gender, None)
                               EXCEPT !.pc = "done", !.failed = "audio"]
                /\ response' = HTTPError(400, "Invalid audio file")
           ELSE /\ req' = VoiceRequest(audio, tts_provider, gender, None)
                /\ UNCHANGED response
    /\ UNCHANGED <<VoiceFrame, logs>>

\* transcript = stt_service.transcribe_audio(...)
VoiceTranscribe ==
    /\ req.pc = "transcribe"
    /\ \E stt \in STTOutcomes :
           IF stt.fail
           THEN /\ req' = [req EXCEPT !.pc = "done", !.failed = "transcribe",
                                      !.stages = Append(@, "transcribe")]
                /\ response' = HTTPError(502, "STT failed")
           ELSE /\ req' = [req EXCEPT !.transcript = stt.transcript,
                                      !.pc = "voice_search",
                                      !.stages = Append(@, "transcribe")]
                /\ UNCHANGED response
    /\ UNCHANGED <<VoiceFrame, logs>>

\* k = settings.top_k; results = similarity_search(transcript, k=k)
VoiceSearch ==
    /\ req.pc = "voice_search"
    /\ \E index \in QueryIndexOutcomes :
           LET r == similarity_search(req.transcript, settings_top_k, settings_top_k, index)
           IN  /\ index_log' = index_log \o r.calls
               /\ IF r.raised = "ValueError"
                  THEN /\ req' = [req EXCEPT !.k = settings_top_k, !.pc = "done",
                                             !.failed = "search",
                                             !.stages = Append(@, "search")]
                       /\ response' = HTTPError(400, "top_k must be between")
                  ELSE IF r.raised = "RuntimeError"
                  THEN /\ req' = [req EXCEPT !.k = settings_top_k, !.pc = "done",
                                             !.failed = "search",
                                             !.stages = Append(@, "search")]
                       /\ response' = HTTPError(502, "Vector search failed")
                  ELSE /\ req' = [req EXCEPT !.k = settings_top_k, !.results = r.value,
                                             !.pc = "voice_rerank",
                                             !.stages = Append(@, "search")]
                       /\ UNCHANGED response
    /\ UNCHANGED <<VoiceFrame, llm_log, predict_log, generate_log, rerank_log>>

\* rerank_top_k = settings.rerank_top_k
\* results = reranker_service.rerank(transcript, results, top_k=rerank_top_k)
VoiceRerank ==
    /\ req.pc = "voice_rerank"
    /\ \E predict \in QueryPredictOutcomes(Len(req.results)) :
           LET r == rerank(req.transcript, req.results, rerank_top_k, predict)
           IN  /\ predict_log' = predict_log \o [i \in 1..Len(r.calls) |->
                                                     [pairs |-> r.calls[i],
                                                      fail |-> predict.fail]]
               /\ rerank_log' =
                      Append(rerank_log,
                             [query |-> req.transcript, documents |-> req.results,
                              top_k |-> rerank_top_k])
               /\ IF r.raised = "RuntimeError"
                  THEN /\ req' = [req EXCEPT !.pc = "done", !.failed = "rerank",
                                             !.stages = Append(@, "rerank")]
                       /\ response' = HTTPError(502, "Vector search failed")
                  ELSE /\ req' = [req EXCEPT !.results = r.value,
                                             !.pc = "voice_generate",
                                             !.stages = Append(@, "rerank")]
                       /\ UNCHANGED response
    /\ UNCHANGED <<VoiceFrame, llm_log, index_log, generate_log>>

\* context = build_context_from_documents(results)
\* answer = llm_service.generate_with_context(query=transcript, context=context)
VoiceGenerate ==
    /\ req.pc = "voice_generate"
    /\ \E llm \in AnswerOutcomes :
           LET context == build_context_from_documents(req.results)
               r == generate_with_context(req.transcript, context, <<>>, <<>>, llm)
           IN  /\ llm_log' = llm_log \o [i \in 1..Len(r.prompts) |->
                                            [prompt |-> r.prompts[i], reply |-> llm]]
               /\ generate_log' =
                      Append(generate_log,
                             [query |-> req.transcript, context |-> context,
                              image_descriptions |-> <<>>, history |-> <<>>])
               /\ IF r.raised = "RuntimeError"
                  THEN /\ req' = [req EXCEPT !.context = context, !.pc = "done",
                                             !.failed = "generate",
                                             !.stages = Append(@, "generate")]
                       /\ response' = HTTPError(502, "LLM generation failed")
                  ELSE /\ req' = [req EXCEPT !.context = context, !.answer = r.value,
                                             !.pc = "synthesize",
                                             !.stages = Append(@, "generate")]
                       /\ UNCHANGED response
    /\ UNCHANGED <<VoiceFrame, index_log, predict_log, rerank_log>>

\* audio_out = tts_service.synthesize(answer.replace("*", "").strip(), ...),
\* then the VoiceQueryResponse is returned
VoiceSynthesize ==
    /\ req.pc = "synthesize"
    /\ \E http \in HTTPOutcomes :
           LET s == call.settings
               answer_reformatted == Strip(Remove(req.answer, "*"))
               r == synthesize(answer_reformatted, req.tts_provider, req.gender,
                               req.tts_model, s, http)
               provider_used == Lower(Or(req.tts_provider, s.tts_provider))
               model_used == IF provider_used = "deepgram"
                             THEN Or(req.tts_model, s.deepgram_tts_model)
                             ELSE Or(req.tts_model, s.elevenlabs_default_model)
           IN  IF r.raised # ""
               THEN /\ req' = [req EXCEPT !.pc = "done", !.failed = "synthesize",
                                          !.posts = r.posts,
                                          !.stages = Append(@, "synthesize")]
                    /\ response' = HTTPError(502, "TTS failed")
               ELSE /\ req' = [req EXCEPT !.pc = "done", !.posts = r.posts,
                                          !.stages = Append(@, "synthesize")]
                    /\ response' = [status |-> 200, transcript |-> req.transcript,
                                    answer |-> req.answer,
                                    audio_base64 |-> b64encode(r.value),
                                    tts_provider |-> provider_used,
                                    tts_model |-> model_used,
                                    search_query |-> req.transcript,
                                    top_k |-> req.k]
    /\ UNCHANGED <<VoiceFrame, logs>>

\* the response has gone out and the handler's frame is dropped
VoiceFinish ==
    /\ call.fn = "voice_query_rag"
    /\ req.pc = "done"
    /\ req' = IdleRequest
    /\ response' = NoResponse
    /\ turns' = turns + 1
    /\ llm_log' = <<>> /\ index_log' = <<>> /\ predict_log' = <<>>
    /\ generate_log' = <<>> /\ rerank_log' = <<>>
    /\ UNCHANGED <<hvars, store, clock, next_id, settings_top_k>>

NextVoice ==
    \/ VoiceReceive
    \/ VoiceTranscribe
    \/ VoiceSearch
    \/ VoiceRerank
    \/ VoiceGenerate
    \/ VoiceSynthesize
    \/ VoiceFinish

SpecVoice == InitVoice /\ [][NextVoice]_vars

\* C23: /query and /voice-query hand the Reranker the same fixed final width,
\* 8 by default, whatever top_k is: every call of rerank made by a /voice-query
\* request carries the width that query_rag uses.
C23_VoiceRerankWidthIsQueryWidth ==
    \A i \in 1..Len(rerank_log) : rerank_log[i].top_k = rerank_top_k_query

\* -------------------------------------------------- POST /describe-images
max_images_per_request == 5     \* Settings.max_images_per_request

\* an uploaded file: PIL opens it or not, and the vision model describes the
\* opened image or fails on it
Uploads ==
    {[valid |-> TRUE, img |-> [fail |-> FALSE, text |-> <<"Ramses", SP, "II">>]],
     [valid |-> TRUE, img |-> [fail |-> TRUE, text |-> <<"timeout">>]],
     [valid |-> FALSE, img |-> [fail |-> TRUE, text |-> <<>>]]}

\* validate_image_count(count, max_count)
validate_image_count(count, max_count) ==
    IF count > max_count THEN [raised |-> "ValueError"] ELSE [raised |-> ""]

\* upload_files_to_pil_images(files): ValueError at the first file that is
\* not an image
upload_files_to_pil_images(files) ==
    IF \E i \in 1..Len(files) : ~files[i].valid
    THEN [raised |-> "ValueError", value |-> <<>>]
    ELSE [raised |-> "", value |-> [i \in 1..Len(files) |-> files[i].img]]

\* the body of the try block of describe_images: what it raises or returns,
\* and the images it hands to describe_images_batch
describe_images_Try(images) ==
    IF images = <<>>
    THEN [raised |-> "HTTPException", status |-> 400, described |-> <<>>,
          value |-> <<>>]
    ELSE IF validate_image_count(Len(images), max_images_per_request).raised # ""
    THEN [raised |-> "ValueError", status |-> 0, described |-> <<>>, value |-> <<>>]
    ELSE LET pil == upload_files_to_pil_images(images)
         IN  IF pil.raised # ""
             THEN [raised |-> pil.raised, status |-> 0, described |-> <<>>,
                   value |-> <<>>]
             ELSE [raised |-> "", status |-> 200, described |-> pil.value,
                   value |-> describe_images_batch(pil.value)]

\* describe_images(images): the except clauses turn what the try block raised
\* into the response; HTTPException is neither a ValueError nor a
\* RuntimeError, so `except Exception` takes it
describe_images(images) ==
    LET t == describe_images_Try(images)
    IN  IF t.raised = "ValueError"
        THEN [status |-> 400, descriptions |-> <<>>, described |-> t.described]
        ELSE IF t.raised = "RuntimeError"
        THEN [status |-> 502, descriptions |-> <<>>, described |-> t.described]
        ELSE IF t.raised # ""
        THEN [status |-> 500, descriptions |-> <<>>, described |-> t.described]
        ELSE [status |-> 200, descriptions |-> t.value, described |-> t.described]

\* images: List[UploadFile] = File(...): a form without the images part is
\* turned down by the framework (422) and the handler does not run
DescribeRequests ==
    {[fn |-> "describe_images", part |-> FALSE, images |-> <<>>]}
        \cup {[fn |-> "describe_images", part |-> TRUE, images |-> i] :
                  i \in SeqUpTo(Uploads, max_images_per_request + 1)}

InitDescribe ==
    /\ call \in DescribeRequests
    /\ ret = Pending
    /\ NoCalls
    /\ NoServer

CallDescribeImages ==
    /\ call.fn = "describe_images"
    /\ ret = Pending
    /\ ret' = IF call.part
              THEN [status |-> "returned", response |-> describe_images(call.images)]
              ELSE [status |-> "returned",
                    response |-> [status |-> 422, descriptions |-> <<>>,
                                  described |-> <<>>]]
    /\ UNCHANGED <<call, logs, pvars>>

NextDescribe == CallDescribeImages

SpecDescribe == InitDescribe /\ [][NextDescribe]_vars

\* C24: a describe-images request that carries no image, or more images than
\* max_images_per_request, is answered with status 400 and no image is handed
\* to the ImageDescriber.
C24_BadImageCountIs400 ==
    (/\ call.fn = "describe_images"
     /\ ret.status = "returned"
     /\ \/ Len(call.images) = 0
        \/ Len(call.images) > max_images_per_request)
        => /\ ret.response.status = 400
           /\ ret.response.described = <<>>

\* C25: while one /query request is served, the vector index, the reranker
\* and the answer generator are each called at most once, and after a step in
\* which one of them has failed no step calls the index, the cross-encoder,
\* the reranker or an LLM again or writes to the conversation: the only step
\* left drops the request's frame.
C25_EachStageOnceAndNothingAfterFailure ==
    [][/\ Len(index_log') <= 1
       /\ Len(rerank_log') <= 1
       /\ Len(generate_log') <= 1
       /\ (req.pc # "idle" /\ req.failed \in {"search", "rerank", "generate"})
              => /\ index_log' \in {index_log, <<>>}
                 /\ predict_log' \in {predict_log, <<>>}
                 /\ rerank_log' \in {rerank_log, <<>>}
                 /\ generate_log' \in {generate_log, <<>>}
                 /\ llm_log' \in {llm_log, <<>>}
                 /\ store' = store
                 /\ req'.pc = "idle"]_vars

\* C25 witness: the reranker failed after the index had answered; each was
\* called once and the generator not at all.
C25_Witness ==
    /\ req.pc = "done"
    /\ req.failed = "rerank"
    /\ Len(index_log) = 1
    /\ Len(rerank_log) = 1
    /\ Len(predict_log) = 1
    /\ generate_log = <<>>

\* the text between the history heading and the question heading of a
\* rewrite prompt that was built for the given query
ShownHistory(prompt, query) ==
    SubSeq(prompt, 6, Len(prompt) - (4 + Len(query) + 3))

\* C26: for a non-empty history the rewriter sends the LLM one prompt, whose
\* history block holds exactly the last min(6, |history|) messages, oldest
\* first, one line each, and no other message.
C26_RewriterShowsLastSix ==
    (call.fn = "rewrite_query" /\ call.history # <<>> /\ ret # Pending)
        => /\ Len(llm_log) = 1
           /\ LET n == Len(call.history)
                  m == Min(6, n)
                  line(j) ==
                      LET msg == call.history[n - m + j]
                      IN  <<IF msg.role = "user" THEN "User" ELSE "Assistant",
                            ":", SP>> \o msg.content
                  shown == ShownHistory(llm_log[1].prompt, call.query)
              IN  /\ shown = Join(<<NL>>, [j \in 1..m |-> line(j)])
                  /\ \A i \in 1..n :
                         Contains(shown, call.history[i].content) <=> i > n - m

\* C26 witness: a history of more than six messages was rewritten.
C26_Witness ==
    /\ call.fn = "rewrite_query"
    /\ Len(call.history) > 6
    /\ ret # Pending
    /\ Len(llm_log) = 1

\* C27: whenever rewrite_query returns a rewritten query rather than the
\* query it was given, the result neither begins nor ends with whitespace or
\* with a single or double quote, however the LLM mixed or nested them.
C27_RewrittenQueryHasCleanEdges ==
    (/\ call.fn = "rewrite_query"
     /\ call.history # <<>>
     /\ ret # Pending
     /\ ret.value # call.query)
        => /\ ret.value # <<>>
           /\ ret.value[1] \notin {SP, NL, DQ, SQ}
           /\ ret.value[Len(ret.value)] \notin {SP, NL, DQ, SQ}

\* ------------------------------------------ tts_elevenlabs called directly
TTSVoices == {None, "female", "male", "custom-voice", ""}

InitTTS ==
    /\ call \in [fn : {"tts_elevenlabs"}, voice : TTSVoices,
                 settings : TTSSettings, http : HTTPOutcomes]
    /\ ret = Pending
    /\ NoCalls
    /\ NoServer

CallTTS ==
    /\ call.fn = "tts_elevenlabs"
    /\ ret = Pending
    /\ LET r == tts_elevenlabs(<<"I", SP, "ruled">>, call.voice, None,
                               call.settings, call.http)
       IN  ret' = [status |-> IF r.raised # "" THEN "raised" ELSE "returned",
                   raised |-> r.raised, value |-> r.value, posts |-> r.posts]
    /\ UNCHANGED <<call, logs, pvars>>

NextTTS == CallTTS

SpecTTS == InitTTS /\ [][NextTTS]_vars

\* C28: with an API key configured, ElevenLabs synthesis with no voice or with
\* "female" uses the configured female voice id, or the male one when the
\* female one is unset; with "male" it uses the male id, or the female one
\* when the male one is unset; any other voice is used as the voice id as it
\* stands; and when no voice id results, synthesis fails and no HTTP request
\* is sent.
C28_ElevenLabsVoiceSelection ==
    (/\ call.fn = "tts_elevenlabs"
     /\ ret # Pending
     /\ call.settings.elevenlabs_api_key \notin {None, ""})
        => LET female == call.settings.elevenlabs_voice_female
               male == call.settings.elevenlabs_voice_male
               unset(v) == v \in {None, ""}
               expected ==
                   IF call.voice \in {None, "female"}
                   THEN IF unset(female) THEN male ELSE female
                   ELSE IF call.voice = "male"
                   THEN IF unset(male) THEN female ELSE male
                   ELSE call.voice
           IN  IF unset(expected)
               THEN ret.status = "raised" /\ ret.posts = <<>>
               ELSE /\ Len(ret.posts) = 1
                    /\ ret.posts[1].voice_id = expected

\* C28 witness: "male" was asked for with no male voice id configured, and
\* the request went out with the female one.
C28_Witness ==
    /\ call.fn = "tts_elevenlabs"
    /\ call.voice = "male"
    /\ call.settings.elevenlabs_voice_male = None
    /\ call.settings.elevenlabs_voice_female = "voice-F"
    /\ ret # Pending
    /\ ret.status = "returned"
    /\ ret.posts[1].voice_id = "voice-F"

\* conversation id was issued and stored earlier and is stored no longer: it
\* is not in the collection and no create_conversation is about to insert it
Deleted(id) ==
    /\ id \in KnownIds \ {"ghost"}
    /\ id \notin DOMAIN store
    /\ id = "seed" => \E t \in Tasks : /\ ret[t].status = "returned"
                                      /\ ret[t].fn = "delete_conversation"
                                      /\ ret[t].conversation_id = "seed"
                                      /\ ret[t].value
    /\ \A t \in Tasks : ~(/\ call[t].fn = "create_conversation"
                          /\ call[t].conversation_id = id)

\* C29: a conversation whose delete returned true is gone for good: the step
\* in which delete_conversation(id) returns true leaves no conversation id,
\* and no later step of any coroutine (an append that was pending when the
\* delete ran, a new append, a create, a read) stores a conversation under
\* that id again; get_history(id) keeps answering with the empty list.
C29_DeletedConversationStaysDeleted ==
    [][\A id \in KnownIds :
           LET deleted_now ==
                   \E t \in Tasks : /\ Applies(t, "delete_conversation")
                                    /\ ret'[t].conversation_id = id
                                    /\ ret'[t].value
           IN  (deleted_now \/ Deleted(id))
                   => /\ id \notin DOMAIN store'
                      /\ get_history(store', id, 10) = <<>>]_vars

\* C29 witness: an append to the seed conversation was pending when the
\* conversation was deleted; it completed after the delete and the
\* conversation is still absent.
C29_Witness ==
    /\ "seed" \notin DOMAIN store
    /\ \E t1, t2 \in Tasks :
           /\ ret[t1].status = "returned"
           /\ ret[t1].fn = "delete_conversation"
           /\ ret[t1].conversation_id = "seed"
           /\ ret[t1].value
           /\ ret[t2].status = "returned"
           /\ ret[t2].fn = "add_message"
           /\ ret[t2].conversation_id = "seed"
           /\ ret[t2].warned
           /\ ret[t2].op < ret[t1].op

\* the messages the conversation named by the request held when the request
\* arrived
StoredOnArrival ==
    IF req.sent_id \in DOMAIN store
    THEN SelectSeq(store[req.sent_id].messages, LAMBDA m : m.timestamp < req.started)
    ELSE <<>>

\* C30: in one /query turn the rewriter and the answer generator are handed
\* the same history: the one read before the turn's user message was stored,
\* which is the last messages (10 at most) the conversation held on arrival
\* and holds no message stored during the turn.
C30_OneHistorySnapshotPerTurn ==
    (req.pc \notin {"idle", "history"} /\ req.failed # "validate")
        => /\ req.history = LastN(StoredOnArrival, 10)
           /\ Len(req.history) <= 10
           /\ \A i \in 1..Len(req.history) : req.history[i].timestamp < req.started
           /\ \A i \in 1..Len(req.stages) :
                  req.stages[i] = "rewrite" => req.rewriter_history = req.history
           /\ \A i \in 1..Len(generate_log) : generate_log[i].history = req.history

\* C30 witness: a turn on a conversation of eleven messages succeeded; the
\* rewriter and the generator both got its last ten, and the conversation now
\* holds thirteen.
C30_Witness ==
    /\ Succeeded
    /\ req.sent_id = "long"
    /\ Len(store["long"].messages) = 13
    /\ Len(req.history) = 10
    /\ req.rewriter_history = req.history
    /\ Len(generate_log) = 1
    /\ generate_log[1].history = req.history

====
